---- MODULE Spec2Model ----
(***************************************************************************)
(* AgoraFlux data pipeline (backend/app/data): the orchestrator            *)
(* DataPipeline with its collaborators DataSourceManager, DataProcessor,   *)
(* DataFusion and AutoDocumentationGenerator.                              *)
(*                                                                         *)
(* The orchestrator runs on one asyncio event loop: a coroutine runs       *)
(* without interruption until it awaits something that really suspends.    *)
(* In run_full_pipeline the only such await is the join of the fetch       *)
(* tasks in fetch_all_sources; every other stage is awaited but never      *)
(* yields.  The variable loop names the invocation that holds the event    *)
(* loop (0: the loop is free to schedule any ready coroutine).             *)
(*                                                                         *)
(* Text is a sequence of one-character strings; a dict is a function       *)
(* whose DOMAIN is its key set; accents of the source literals are         *)
(* dropped (Education, Sante).                                             *)
(***************************************************************************)
EXTENDS Integers, Sequences, FiniteSets, TLC

\* ------------------------------------------------------------------ bounds
MaxCalls == 2
MaxFaults == 1
MaxFusionRows == 2
MaxQualityRows == 2
MaxDocRows == 1
MaxClock == 2
MaxFieldValues == 5
MaxNow == 2
MaxRawRows == 2
MaxRequests == 4

\* --------------------------------------------------------------- utilities
EmptyDict == [k \in {} |-> 0]

RECURSIVE SumSeq(_)
SumSeq(s) == IF s = <<>> THEN 0 ELSE Head(s) + SumSeq(Tail(s))

RECURSIVE SetToSeq(_)
SetToSeq(S) ==
    IF S = {} THEN <<>>
    ELSE LET x == CHOOSE y \in S : TRUE IN <<x>> \o SetToSeq(S \ {x})

Digits == {"0", "1", "2", "3", "4", "5", "6", "7", "8", "9"}

DigitVal(c) ==
    CASE c = "0" -> 0 [] c = "1" -> 1 [] c = "2" -> 2 [] c = "3" -> 3
      [] c = "4" -> 4 [] c = "5" -> 5 [] c = "6" -> 6 [] c = "7" -> 7
      [] c = "8" -> 8 [] c = "9" -> 9

\* int() of a run of decimal digits
RECURSIVE DigitsToInt(_)
DigitsToInt(s) ==
    IF s = <<>> THEN 0 ELSE DigitsToInt(SubSeq(s, 1, Len(s) - 1)) * 10 + DigitVal(s[Len(s)])

\* ------------------------------------------------------ sources.py: data
\* DataSourceManager.__init__: the registered source keys
RegistrySources == {"paris_budget", "paris_particiption", "transport_national"}

\* DataSource.format of each registered source
SourceFormat(key) ==
    CASE key = "paris_budget" -> "csv"
      [] key = "paris_particiption" -> "csv"
      [] key = "transport_national" -> "json"

Arr(a, b) == <<"7", "5", "0", a, b>>

get_mock_budget_data ==
    << [secteur |-> "Education", montant |-> 1240000000],
       [secteur |-> "Transport", montant |-> 890000000],
       [secteur |-> "Logement", montant |-> 650000000],
       [secteur |-> "Sante", montant |-> 520000000],
       [secteur |-> "Environnement", montant |-> 420000000],
       [secteur |-> "Culture et Sports", montant |-> 250000000] >>

get_mock_participation_data ==
    << [arrondissement |-> Arr("1", "1"), participants |-> 634],
       [arrondissement |-> Arr("1", "5"), participants |-> 567],
       [arrondissement |-> Arr("1", "0"), participants |-> 521],
       [arrondissement |-> Arr("1", "8"), participants |-> 512],
       [arrondissement |-> Arr("1", "2"), participants |-> 478] >>

\* A payload is what fetch_data returns: a dict with a data list (kind
\* "dict"), the dict {"error": reason} (kind "error"), or, for a json source,
\* whatever json.loads yields: an array (kind "list") or a number, boolean
\* or null (kind "scalar").
DictPayload(rows) == [kind |-> "dict", data |-> rows]
ErrorPayload == [kind |-> "error", data |-> <<>>]
ListPayload == [kind |-> "list", data |-> <<>>]
ScalarPayload == [kind |-> "scalar", data |-> <<>>]

\* 'error' in payload (TypeError on a scalar is handled by the callers)
HasError(p) == p.kind = "error"

\* DataPipeline._get_mock_data
GetMockData ==
    [k \in {"paris_budget", "paris_participation"} |->
        IF k = "paris_budget" THEN DictPayload(get_mock_budget_data)
        ELSE DictPayload(get_mock_participation_data)]

\* The answers the network can give to fetch_data(key).  A csv source goes
\* through _parse_csv and is always a dict; a json source is json.loads of
\* the body.
LiveRows(key) ==
    CASE key = "paris_budget" ->
            << [secteur |-> "Education", montant |-> 1240000000],
               [secteur |-> "Voirie", montant |-> 0] >>
      [] key = "paris_particiption" ->
            << [arrondissement |-> Arr("1", "1"), participants |-> 634] >>
      [] key = "transport_national" ->
            << [region |-> "IDF"] >>

\* how one fetch can go: the body is delivered and parsed ("ok"; for json
\* also to an array or to a number, boolean or null), the status is not 200,
\* the connection or the read raises, the body cannot be parsed
FetchOutcomes(key) ==
    {"ok", "http_status", "network_error", "parse_error"}
    \cup (IF SourceFormat(key) = "json" THEN {"ok_array", "ok_scalar"} ELSE {})

\* the outcomes in which the fetch failed
FailedOutcomes == {"http_status", "network_error", "parse_error"}

\* DataSourceManager.fetch_data: the payload returned for an outcome; the
\* except branches of fetch_data and _parse_csv turn every exception into
\* the error dict
PayloadOfOutcome(key, outcome) ==
    CASE outcome = "ok" -> DictPayload(LiveRows(key))
      [] outcome = "ok_array" -> ListPayload
      [] outcome = "ok_scalar" -> ScalarPayload
      [] OTHER -> ErrorPayload

FetchData(key) == {PayloadOfOutcome(key, o) : o \in FetchOutcomes(key)}

\* ------------------------------------------------------------ processor.py
\* DataPipeline._get_data_type_from_source: substring tests on the key
GetDataTypeFromSource(key) ==
    CASE key = "paris_budget" -> "budget"
      [] key = "paris_participation" -> "participation"
      [] key = "transport_national" -> "transport"
      [] OTHER -> "general"

\* re.match(r'^75\d{3}$', arrond)
MatchArrondissement(s) ==
    /\ Len(s) = 5
    /\ s[1] = "7" /\ s[2] = "5"
    /\ \A i \in 3..5 : s[i] \in Digits

\* DataProcessor._validate_budget_data: rows without secteur and a positive
\* montant are dropped
RECURSIVE ValidateBudgetData(_)
ValidateBudgetData(data) ==
    IF data = <<>> THEN <<>>
    ELSE LET row == Head(data)
             ok == /\ {"secteur", "montant"} \subseteq DOMAIN row
                   /\ row.montant > 0
         IN (IF ok THEN <<row>> ELSE <<>>) \o ValidateBudgetData(Tail(data))

\* DataProcessor._validate_participation_data: rows without a 75XXX
\* arrondissement and a non-negative participant count are dropped
RECURSIVE ValidateParticipationData(_)
ValidateParticipationData(data) ==
    IF data = <<>> THEN <<>>
    ELSE LET row == Head(data)
             ok == /\ {"arrondissement", "participants"} \subseteq DOMAIN row
                   /\ MatchArrondissement(row.arrondissement)
                   /\ row.participants >= 0
         IN (IF ok THEN <<row>> ELSE <<>>) \o ValidateParticipationData(Tail(data))

\* DataProcessor.process_data: clean, validate by type, transform.  The
\* result entry of the orchestrator: error FALSE and the processed rows.
ProcessData(raw, data_type) ==
    LET validated ==
            CASE data_type = "budget" -> ValidateBudgetData(raw.data)
              [] data_type = "participation" -> ValidateParticipationData(raw.data)
              [] OTHER -> raw.data
    IN [error |-> FALSE, data_type |-> data_type, raw_rows |-> Len(raw.data),
        processed_rows |-> Len(validated), data |-> validated]

\* the entry {"error": str(e)} of a source whose processing raised
ProcessError == [error |-> TRUE, data_type |-> "none", raw_rows |-> 0,
                 processed_rows |-> 0, data |-> <<>>]

\* ---- DataProcessor._clean_raw_data
\* a raw value: None, a str (its text) or a number
NoneValue == [kind |-> "none", text |-> <<>>, num |-> 0]
StrValue(text) == [kind |-> "str", text |-> text, num |-> 0]
NumValue(n) == [kind |-> "num", text |-> <<>>, num |-> n]

\* str.strip() for the whitespace character " "
RECURSIVE LStrip(_)
LStrip(s) == IF s # <<>> /\ Head(s) = " " THEN LStrip(Tail(s)) ELSE s

RECURSIVE RStrip(_)
RStrip(s) ==
    IF s # <<>> /\ s[Len(s)] = " " THEN RStrip(SubSeq(s, 1, Len(s) - 1)) ELSE s

Strip(s) == RStrip(LStrip(s))

\* {k: v for k, v in row.items() if v is not None and v != ''}, then
\* value.strip() on every str that was kept
CleanRow(items) ==
    LET kept == {k \in DOMAIN items : items[k] # NoneValue /\ items[k] # StrValue(<<>>)}
    IN [k \in kept |-> IF items[k].kind = "str" THEN StrValue(Strip(items[k].text))
                       ELSE items[k]]

\* the loop over raw_data.get('data', []): a row that is no dict is skipped,
\* a cleaned row is kept when it is not empty
RECURSIVE CleanRawData(_)
CleanRawData(data) ==
    IF data = <<>> THEN <<>>
    ELSE LET row == Head(data)
             clean_row == CleanRow(row.items)
         IN (IF row.is_dict /\ DOMAIN clean_row # {} THEN <<clean_row>> ELSE <<>>)
            \o CleanRawData(Tail(data))

\* ---- DataProcessor._parse_numeric on a str value
\* re.sub(r'[€$,\s]', '', value.strip()): the euro sign is written "EUR"
StrippedChars == {"EUR", "$", ",", " "}

RECURSIVE RemoveChars(_, _)
RemoveChars(s, chars) ==
    IF s = <<>> THEN <<>>
    ELSE (IF Head(s) \in chars THEN <<>> ELSE <<Head(s)>>) \o RemoveChars(Tail(s), chars)

\* str.replace(',', '.')
ReplaceComma(s) == [i \in DOMAIN s |-> IF s[i] = "," THEN "." ELSE s[i]]

\* float(cleaned) for the plain decimal notation [-]digits[.digits]: the
\* value as the fraction num / den, or ValueError (ok FALSE).  The texts
\* tried hold no exponent, underscore, "inf" or "nan".
FloatOf(s) ==
    LET neg == s # <<>> /\ Head(s) = "-"
        body == IF neg THEN Tail(s) ELSE s
        dots == {i \in DOMAIN body : body[i] = "."}
        ok == /\ \A i \in DOMAIN body : body[i] \in Digits \cup {"."}
              /\ Cardinality(dots) <= 1
              /\ \E i \in DOMAIN body : body[i] \in Digits
        digits == RemoveChars(body, {"."})
        frac == IF dots = {} THEN 0
                ELSE Len(body) - (CHOOSE i \in dots : TRUE)
    IN IF ok
       THEN [ok |-> TRUE,
             num |-> (IF neg THEN -1 ELSE 1) * DigitsToInt(digits),
             den |-> 10 ^ frac]
       ELSE [ok |-> FALSE, num |-> 0, den |-> 1]

\* DataProcessor._parse_numeric(value) for a str (value.strip() is subsumed
\* by the removal of all whitespace): 0.0 when float() raises ValueError
ParseNumeric(value) ==
    LET cleaned == ReplaceComma(RemoveChars(value, StrippedChars))
        f == FloatOf(cleaned)
    IN [num |-> f.num, den |-> f.den]

\* ---- DataProcessor._calculate_quality_metrics
\* Rows are as the validators emit them.  Numbers with one decimal
\* (pourcentage, satisfaction) are held in tenths and montant in hundreds of
\* euros (the range test 1000..10^10 reads 10..10^8); the other numeric
\* fields are integers; every other field is a string.
NumericFields == {"montant", "pourcentage", "annee", "participants",
                  "projets_actifs", "commentaires", "satisfaction", "valeur"}

\* "not value" of a field of a row
Falsy(row, f) == IF f \in NumericFields THEN row[f] = 0 ELSE row[f] = ""

\* row.get(f, 0) of a numeric field
GetNum(row, f) == IF f \in DOMAIN row THEN row[f] ELSE 0

RECURSIVE CountFields(_)
CountFields(data) ==
    IF data = <<>> THEN 0
    ELSE Cardinality(DOMAIN Head(data)) + CountFields(Tail(data))

RECURSIVE CountEmpty(_)
CountEmpty(data) ==
    IF data = <<>> THEN 0
    ELSE Cardinality({f \in DOMAIN Head(data) : Falsy(Head(data), f)})
         + CountEmpty(Tail(data))

RECURSIVE SumField(_, _)
SumField(data, f) ==
    IF data = <<>> THEN 0 ELSE GetNum(Head(data), f) + SumField(Tail(data), f)

Abs(x) == IF x < 0 THEN -x ELSE x

Min(a, b) == IF a <= b THEN a ELSE b

Max(a, b) == IF a >= b THEN a ELSE b

\* DataProcessor._calculate_consistency, in tenths of a percent times
\* Len(data) (so that the participation ratio stays an integer)
CalculateConsistency(data, data_type) ==
    CASE data_type = "budget" ->
            LET total_pourcentage == SumField(data, "pourcentage")
                consistency == IF total_pourcentage > 0
                               THEN 1000 - Abs(1000 - total_pourcentage) ELSE 0
            IN Max(0, Min(1000, consistency)) * Len(data)
      [] data_type = "participation" ->
            1000 * Cardinality({i \in DOMAIN data :
                GetNum(data[i], "participants") >= GetNum(data[i], "projets_actifs")})
      [] OTHER -> 900 * Len(data)

\* DataProcessor._calculate_validity, in tenths of a percent times Len(data)
CalculateValidity(data, data_type) ==
    1000 * Cardinality({i \in DOMAIN data :
        CASE data_type = "budget" ->
                /\ 10 <= GetNum(data[i], "montant")
                /\ GetNum(data[i], "montant") <= 100000000
                /\ 0 <= GetNum(data[i], "pourcentage")
                /\ GetNum(data[i], "pourcentage") <= 1000
          [] data_type = "participation" ->
                /\ 0 <= GetNum(data[i], "participants")
                /\ GetNum(data[i], "participants") <= 10000
                /\ 0 <= GetNum(data[i], "satisfaction")
                /\ GetNum(data[i], "satisfaction") <= 50
          [] OTHER -> TRUE})

\* round(num / den, 1) in tenths for num >= 0, den > 0, num / den given in
\* tenths: to the nearest integer, a tie to the even one
Round1(num, den) ==
    LET q == num \div den
        r == num % den
    IN IF 2 * r > den \/ (2 * r = den /\ q % 2 = 1) THEN q + 1 ELSE q

\* the quality level of the unrounded overall score num / den (in tenths)
QualityLevel(num, den) ==
    IF num >= 950 * den THEN "excellent"
    ELSE IF num >= 800 * den THEN "good"
    ELSE IF num >= 600 * den THEN "acceptable"
    ELSE "poor"

\* a variant in which the weighted sum counts the consistency twice
CalculateQualityMetricsOverweight(data, data_type) ==
    IF data = <<>>
    THEN [completeness |-> 0, consistency |-> 0, validity |-> 0,
          overall_score |-> 0, quality_level |-> "poor"]
    ELSE LET total_fields == CountFields(data)
             empty_fields == CountEmpty(data)
             n == Len(data)
             t == Max(total_fields, 1)
             completeness == IF total_fields > 0
                             THEN 1000 * (total_fields - empty_fields) * n ELSE 0
             consistency == CalculateConsistency(data, data_type) * t
             validity == CalculateValidity(data, data_type) * t
             overall_score == 3 * completeness + 8 * consistency + 3 * validity
         IN [completeness |-> Round1(completeness, t * n),
             consistency |-> Round1(consistency, t * n),
             validity |-> Round1(validity, t * n),
             overall_score |-> Round1(overall_score, 10 * t * n),
             quality_level |-> QualityLevel(overall_score, 10 * t * n)]

\* DataProcessor._calculate_quality_metrics.  The three scores are fractions
\* over the common denominator total_fields * len(data), the overall score
\* over ten times that; the level is taken from the unrounded overall score,
\* the four scores are reported rounded to one decimal (in tenths here).
\* The arithmetic is exact, where the code uses binary floating point.
CalculateQualityMetrics(data, data_type) ==
    IF data = <<>>
    THEN [completeness |-> 0, consistency |-> 0, validity |-> 0,
          overall_score |-> 0, quality_level |-> "poor"]
    ELSE LET total_fields == CountFields(data)
             empty_fields == CountEmpty(data)
             n == Len(data)
             t == Max(total_fields, 1)
             completeness == IF total_fields > 0
                             THEN 1000 * (total_fields - empty_fields) * n ELSE 0
             consistency == CalculateConsistency(data, data_type) * t
             validity == CalculateValidity(data, data_type) * t
             overall_score == 3 * completeness + 4 * consistency + 3 * validity
         IN [completeness |-> Round1(completeness, t * n),
             consistency |-> Round1(consistency, t * n),
             validity |-> Round1(validity, t * n),
             overall_score |-> Round1(overall_score, 10 * t * n),
             quality_level |-> QualityLevel(overall_score, 10 * t * n)]

\* --------------------------------------------------------------- fusion.py
\* DataFusion.__init__: the registered recipes (FusionConfig)
FusionConfigs ==
    [civic_engagement |->
        [strategy |-> "geographic", primary_source |-> "paris_participation",
         secondary_sources |-> <<"paris_budget">>],
     urban_overview |->
        [strategy |-> "hybrid", primary_source |-> "paris_budget",
         secondary_sources |-> <<"paris_participation", "transport_national">>]]

FusionTypes == DOMAIN FusionConfigs

\* sector_to_district of _normalize_budget_data
SectorToDistrict ==
    [s \in {"Education", "Transport", "Logement", "Sante", "Environnement",
            "Culture et Sports"} |->
        CASE s = "Education" -> <<1, 5, 6, 7>>
          [] s = "Transport" -> <<1, 2, 8, 9>>
          [] s = "Logement" -> <<10, 11, 18, 19, 20>>
          [] s = "Sante" -> <<3, 4, 12, 13>>
          [] s = "Environnement" -> <<14, 15, 16, 17>>
          [] s = "Culture et Sports" -> <<1, 4, 5, 6, 7, 8>>]

\* 'data' in entry and entry['data']
HasData(entry) == entry.data # <<>>

\* DataFusion._validate_sources: the recipe's sources that are present with
\* a non-empty data list, as a dict
ValidateSources(processed_data, config) ==
    LET named == {config.primary_source}
                 \cup {config.secondary_sources[i] : i \in DOMAIN config.secondary_sources}
        ok == {k \in named : k \in DOMAIN processed_data /\ HasData(processed_data[k])}
    IN [k \in ok |-> processed_data[k]]

\* columns of pd.DataFrame(rows): the union of the rows' keys; a row that
\* lacks a column holds NaN there
DataFrame(rows) ==
    [columns |-> UNION {DOMAIN rows[i] : i \in DOMAIN rows}, rows |-> rows]

\* str.extract(r'75(\d+)'): the digits after the leftmost "75" that is
\* followed by a digit; <<>> stands for NaN (no match)
ExtractCode(s) ==
    LET starts == {p \in 1..(Len(s) - 2) :
                     s[p] = "7" /\ s[p + 1] = "5" /\ s[p + 2] \in Digits}
    IN IF starts = {} THEN <<>>
       ELSE LET p == CHOOSE q \in starts : \A r \in starts : q <= r
                stop == CHOOSE e \in (p + 2)..Len(s) :
                           /\ \A j \in (p + 2)..e : s[j] \in Digits
                           /\ (e = Len(s) \/ s[e + 1] \notin Digits)
            IN SubSeq(s, p + 2, stop)

\* pd.cut(participation_count, bins=[0, 100, 500, 1000, inf]): the label of
\* the right-closed bin, NaN outside of them
ParticipationLevel(count) ==
    IF count <= 0 THEN "NaN"
    ELSE IF count <= 100 THEN "Faible"
    ELSE IF count <= 500 THEN "Moderee"
    ELSE IF count <= 1000 THEN "Elevee"
    ELSE "Tres elevee"

\* DataFusion._normalize_participation_data.  raised: astype(int) met NaN.
\* The rows tried have no projets_actifs and no satisfaction column.
NormalizeParticipationData(df) ==
    LET hasZone == "arrondissement" \in df.columns
        hasCount == "participants" \in df.columns
        counted(row) ==
            IF hasCount /\ "participants" \in DOMAIN row
            THEN [participation_count |-> row.participants,
                  participation_level |-> ParticipationLevel(row.participants)]
            ELSE EmptyDict
        codeOf(row) == IF "arrondissement" \in DOMAIN row
                       THEN ExtractCode(row.arrondissement) ELSE <<>>
        bad == hasZone /\ \E i \in DOMAIN df.rows : codeOf(df.rows[i]) = <<>>
        newRow(row) ==
            IF hasZone
            THEN [zone_geo |-> row.arrondissement,
                  arrondissement_code |-> DigitsToInt(codeOf(row))] @@ counted(row) @@ row
            ELSE counted(row) @@ row
    IN IF bad THEN [raised |-> TRUE, columns |-> {}, rows |-> <<>>]
       ELSE [raised |-> FALSE,
             columns |-> df.columns
                         \cup (IF hasZone THEN {"zone_geo", "arrondissement_code"} ELSE {})
                         \cup (IF hasCount THEN {"participation_count", "participation_level"}
                               ELSE {}),
             rows |-> [i \in DOMAIN df.rows |-> newRow(df.rows[i])]]

DigitChar(n) ==
    CASE n = 0 -> "0" [] n = 1 -> "1" [] n = 2 -> "2" [] n = 3 -> "3" [] n = 4 -> "4"
      [] n = 5 -> "5" [] n = 6 -> "6" [] n = 7 -> "7" [] n = 8 -> "8" [] n = 9 -> "9"

\* column_mapping of _normalize_budget_data: secteur and montant are copied
\* to sector and amount
RenameBudgetColumns(row) ==
    (IF "secteur" \in DOMAIN row THEN [sector |-> row.secteur] ELSE EmptyDict)
    @@ (IF "montant" \in DOMAIN row THEN [amount |-> row.montant] ELSE EmptyDict)
    @@ row

\* the rows one budget row expands to: one per district of its sector, the
\* amount split evenly (kept as the exact fraction amount / districts)
ExpandBudgetRow(row) ==
    IF "secteur" \in DOMAIN row /\ row.secteur \in DOMAIN SectorToDistrict
    THEN LET districts == SectorToDistrict[row.secteur]
         IN [i \in DOMAIN districts |->
                [arrondissement_code |-> districts[i],
                 zone_geo |-> <<"7", "5", "0", DigitChar(districts[i] \div 10),
                                DigitChar(districts[i] % 10)>>,
                 amount_per_district |->
                     [num |-> IF "montant" \in DOMAIN row THEN row.montant ELSE 0,
                      den |-> Len(districts)]] @@ RenameBudgetColumns(row)]
    ELSE <<>>

RECURSIVE ExpandedRows(_)
ExpandedRows(rows) ==
    IF rows = <<>> THEN <<>> ELSE ExpandBudgetRow(Head(rows)) \o ExpandedRows(Tail(rows))

\* DataFusion._normalize_budget_data: when no row has a mapped sector the
\* frame is returned without an arrondissement_code column
NormalizeBudgetData(df) ==
    LET expanded_rows == ExpandedRows(df.rows)
        renamed == df.columns
                   \cup (IF "secteur" \in df.columns THEN {"sector"} ELSE {})
                   \cup (IF "montant" \in df.columns THEN {"amount"} ELSE {})
    IN IF expanded_rows # <<>>
       THEN [raised |-> FALSE,
             columns |-> renamed \cup {"arrondissement_code", "zone_geo", "amount_per_district"},
             rows |-> expanded_rows]
       ELSE [raised |-> FALSE, columns |-> renamed,
             rows |-> [i \in DOMAIN df.rows |-> RenameBudgetColumns(df.rows[i])]]

\* DataFusion._normalize_transport_data
NormalizeTransportData(df) ==
    [raised |-> FALSE,
     columns |-> df.columns \cup {"zone_geo", "arrondissement_code"},
     rows |-> [i \in DOMAIN df.rows |->
                 [zone_geo |-> <<"P", "A", "R", "I", "S">>, arrondissement_code |-> 0]
                 @@ df.rows[i]]]

NormalizeSource(source_name, df) ==
    CASE source_name = "paris_participation" -> NormalizeParticipationData(df)
      [] source_name = "paris_budget" -> NormalizeBudgetData(df)
      [] source_name = "transport_national" -> NormalizeTransportData(df)
      [] OTHER -> [raised |-> FALSE, columns |-> df.columns, rows |-> df.rows]

\* DataFusion._prepare_data_for_fusion: a source whose normalisation raises
\* is left out
PrepareDataForFusion(sources) ==
    LET norm == [k \in DOMAIN sources |-> NormalizeSource(k, DataFrame(sources[k].data))]
    IN [k \in {x \in DOMAIN sources : ~norm[x].raised} |-> norm[k]]

\* the rows of df whose arrondissement_code equals code
RECURSIVE RowsWithCode(_, _)
RowsWithCode(rows, code) ==
    IF rows = <<>> THEN <<>>
    ELSE (IF "arrondissement_code" \in DOMAIN Head(rows)
             /\ Head(rows).arrondissement_code = code
          THEN <<Head(rows)>> ELSE <<>>) \o RowsWithCode(Tail(rows), code)

\* primary_df['arrondissement_code'].unique(), in order of first appearance,
\* NaN left out
RECURSIVE UniqueCodes(_, _)
UniqueCodes(rows, seen) ==
    IF rows = <<>> THEN <<>>
    ELSE IF "arrondissement_code" \in DOMAIN Head(rows)
            /\ Head(rows).arrondissement_code \notin seen
         THEN <<Head(rows).arrondissement_code>>
              \o UniqueCodes(Tail(rows), seen \cup {Head(rows).arrondissement_code})
         ELSE UniqueCodes(Tail(rows), seen)

\* the {source}_{field} keys one primary row receives from the secondary
\* sources: a secondary field is attached when the primary row has no column
\* of that name and the name does not start with an underscore
SecondaryFields(primary_df, prepared_data, config, code) ==
    UNION {
        LET src == config.secondary_sources[i]
        IN IF src \in DOMAIN prepared_data
           THEN LET matches == RowsWithCode(prepared_data[src].rows, code)
                IN IF matches = <<>> THEN {}
                   ELSE {<<src, f>> : f \in prepared_data[src].columns \ primary_df.columns}
           ELSE {}
        : i \in DOMAIN config.secondary_sources }

\* a fusion that copies the fields of the first matching row of the first
\* secondary source into the record under their own names
FusedOfCodeOverwrites(primary_df, prepared_data, config, code) ==
    LET primary_records == RowsWithCode(primary_df.rows, code)
        src == config.secondary_sources[1]
        matches == IF src \in DOMAIN prepared_data
                   THEN RowsWithCode(prepared_data[src].rows, code) ELSE <<>>
    IN [i \in DOMAIN primary_records |->
          [primary |-> IF matches # <<>> THEN matches[1] @@ primary_records[i]
                       ELSE primary_records[i],
           secondary |-> SecondaryFields(primary_df, prepared_data, config, code),
           fusion_type |-> "geographic",
           fusion_key |-> code]]

\* the fused records of one arrondissement, one per primary row
FusedOfCode(primary_df, prepared_data, config, code) ==
    LET primary_records == RowsWithCode(primary_df.rows, code)
    IN [i \in DOMAIN primary_records |->
          [primary |-> primary_records[i],
           secondary |-> SecondaryFields(primary_df, prepared_data, config, code),
           fusion_type |-> "geographic",
           fusion_key |-> code]]

RECURSIVE FuseCodes(_, _, _, _)
FuseCodes(codes, primary_df, prepared_data, config) ==
    IF codes = <<>> THEN <<>>
    ELSE FusedOfCode(primary_df, prepared_data, config, Head(codes))
         \o FuseCodes(Tail(codes), primary_df, prepared_data, config)

\* DataFusion._fuse_geographic.  KeyError (raised) when the primary source was
\* not prepared, or when it or a prepared secondary source has no
\* arrondissement_code column.
FuseGeographic(prepared_data, config) ==
    IF \/ config.primary_source \notin DOMAIN prepared_data
       \/ "arrondissement_code" \notin prepared_data[config.primary_source].columns
    THEN [raised |-> TRUE, fused_data |-> <<>>]
    ELSE LET primary_df == prepared_data[config.primary_source]
             codes == UniqueCodes(primary_df.rows, {})
             secondaryKeyError ==
                 codes # <<>> /\
                 \E i \in DOMAIN config.secondary_sources :
                    /\ config.secondary_sources[i] \in DOMAIN prepared_data
                    /\ "arrondissement_code" \notin
                           prepared_data[config.secondary_sources[i]].columns
         IN IF secondaryKeyError THEN [raised |-> TRUE, fused_data |-> <<>>]
            ELSE [raised |-> FALSE,
                  fused_data |-> FuseCodes(codes, primary_df, prepared_data, config)]

\* the strategy dispatch of fuse_sources: hybrid uses the geographic fusion,
\* temporal and thematic return no record
FuseByStrategy(prepared_data, config) ==
    CASE config.strategy = "geographic" -> FuseGeographic(prepared_data, config)
      [] config.strategy = "hybrid" -> FuseGeographic(prepared_data, config)
      [] OTHER -> [raised |-> FALSE, fused_data |-> <<>>]

\* DataFusion._empty_fusion_result; source_diversity is held in hundredths
EmptyFusionResult ==
    [present |-> TRUE, fused_data |-> <<>>, records_merged |-> 0,
     sources_used |-> {}, records_before_fusion |-> 0, source_diversity |-> 0]

\* the value None of an Optional[FusionResult]
NoFusionResult ==
    [present |-> FALSE, fused_data |-> <<>>, records_merged |-> 0,
     sources_used |-> {}, records_before_fusion |-> 0, source_diversity |-> 0]

\* key.split('_')[0] for the column names of the prepared frames that hold
\* an underscore and do not start with one
ColumnPrefix ==
    [zone_geo |-> "zone", arrondissement_code |-> "arrondissement",
     participation_count |-> "participation", participation_level |-> "participation",
     amount_per_district |-> "amount"]

\* key.split('_')[0] for a key f"{secondary_source}_{key}"
SourcePrefix(source) ==
    CASE source = "paris_budget" -> "paris"
      [] source = "paris_participation" -> "paris"
      [] source = "transport_national" -> "transport"

\* the set unique_sources of _calculate_fusion_metrics: the keys of a fused
\* record are the columns of the primary frame, the attached secondary
\* keys and keys that start with an underscore
UniqueSources(fused_data, primary_columns) ==
    (IF fused_data = <<>> THEN {}
     ELSE {ColumnPrefix[c] : c \in primary_columns \cap DOMAIN ColumnPrefix})
    \cup {SourcePrefix(sf[1]) :
             sf \in UNION {fused_data[i].secondary : i \in DOMAIN fused_data}}

\* round(x, 2) of the fraction num / den >= 0, in hundredths (no fraction
\* met here lies halfway)
Round2(num, den) == (2 * 100 * num + den) \div (2 * den)

\* source_diversity of _calculate_fusion_metrics, in hundredths: 0.0 without
\* fused records, else len(unique_sources) / len(sources) * 100
SourceDiversity(fused_data, primary_columns, sources) ==
    IF fused_data = <<>> THEN 0
    ELSE Round2(Cardinality(UniqueSources(fused_data, primary_columns)) * 100,
                Cardinality(DOMAIN sources))

\* sum(len(source['data']) for source in sources.values())
RECURSIVE TotalRecords(_)
TotalRecords(sources) ==
    IF DOMAIN sources = {} THEN 0
    ELSE LET k == CHOOSE x \in DOMAIN sources : TRUE
         IN Len(sources[k].data)
            + TotalRecords([y \in DOMAIN sources \ {k} |-> sources[y]])

\* DataFusion.fuse_sources for a registered recipe: raised, or a FusionResult
FuseSources(processed_data, fusion_type) ==
    LET config == FusionConfigs[fusion_type]
        available_sources == ValidateSources(processed_data, config)
    IN IF DOMAIN available_sources = {}
       THEN [raised |-> FALSE, result |-> EmptyFusionResult]
       ELSE LET prepared_data == PrepareDataForFusion(available_sources)
                fused == FuseByStrategy(prepared_data, config)
            IN IF fused.raised
               THEN [raised |-> TRUE, result |-> NoFusionResult]
               ELSE [raised |-> FALSE,
                     result |-> [present |-> TRUE,
                                 fused_data |-> fused.fused_data,
                                 records_merged |-> Len(fused.fused_data),
                                 sources_used |-> DOMAIN available_sources,
                                 records_before_fusion |-> TotalRecords(available_sources),
                                 source_diversity |->
                                     SourceDiversity(
                                         fused.fused_data,
                                         prepared_data[config.primary_source].columns,
                                         available_sources)]]

\* for inspection by hand: civic_engagement over the processed fixtures
FixtureProcessed ==
    [k \in DOMAIN GetMockData |-> ProcessData(GetMockData[k], GetDataTypeFromSource(k))]

\* --------------------------------------------------------- documentation.py
\* AutoDocumentationGenerator.generate_comprehensive_documentation: one
\* source_documentation entry per entry of processed_data (records_count is
\* len(source_data.get('data', []))), the fusion documented when a result
\* was passed.  These are the parts of the bundle the orchestrator reads;
\* DocumentationBundle below is the whole bundle.
GenerateComprehensiveDocumentation(processed_data, fusion_result) ==
    [present |-> TRUE,
     source_documentation |->
         [k \in DOMAIN processed_data |-> Len(processed_data[k].data)],
     includes_fusion |-> fusion_result.present]

\* ---- AutoDocumentationGenerator._infer_field_type
\* values are held as the text str(value).strip() gives
\* re.match(r'\d{4}-\d{2}-\d{2}', s): a match at the start of the text
MatchIsoDate(s) ==
    /\ Len(s) >= 10
    /\ \A i \in {1, 2, 3, 4, 6, 7, 9, 10} : s[i] \in Digits
    /\ s[5] = "-" /\ s[8] = "-"

\* re.match(r'\d{2}/\d{2}/\d{4}', s)
MatchSlashDate(s) ==
    /\ Len(s) >= 10
    /\ \A i \in {1, 2, 4, 5, 7, 8, 9, 10} : s[i] \in Digits
    /\ s[3] = "/" /\ s[6] = "/"

\* str.lower() on the letters of the texts tried
LowerChar(c) ==
    CASE c = "T" -> "t" [] c = "F" -> "f" [] c = "Y" -> "y" [] c = "N" -> "n"
      [] OTHER -> c

Lower(s) == [i \in DOMAIN s |-> LowerChar(s[i])]

\* ['true', 'false', 'yes', 'no', '1', '0']
BooleanTexts ==
    { <<"t", "r", "u", "e">>, <<"f", "a", "l", "s", "e">>, <<"y", "e", "s">>,
      <<"n", "o">>, <<"1">>, <<"0">> }

\* the three tests of the loop on one text
IsNumericText(s) == FloatOf(s).ok
IsDateText(s) == MatchIsoDate(s) \/ MatchSlashDate(s)
IsBooleanText(s) == Lower(s) \in BooleanTexts

\* the counter one value of the sample advances: the tests are tried in
\* this order and the first that succeeds ends the iteration (continue)
CountedAs(s) ==
    IF IsNumericText(s) THEN "numeric"
    ELSE IF IsDateText(s) THEN "date"
    ELSE IF IsBooleanText(s) THEN "boolean"
    ELSE "none"

\* the sample limit of values[:min(100, len(values))]
SampleLimit == 100

\* values[:min(100, len(values))]
Sample(values) == SubSeq(values, 1, Min(SampleLimit, Len(values)))

\* the value of a counter after the loop
CountOf(values, kind) ==
    Cardinality({i \in DOMAIN Sample(values) : CountedAs(values[i]) = kind})

\* count / sample_size > 0.8, both sides times 10 * sample_size
OverThreshold(count, sample_size) == count * 10 > 8 * sample_size

\* the chain of threshold tests on the three counters
InferFieldType(values) ==
    IF values = <<>> THEN "unknown"
    ELSE LET sample_size == Min(SampleLimit, Len(values))
         IN IF OverThreshold(CountOf(values, "numeric"), sample_size) THEN "numeric"
            ELSE IF OverThreshold(CountOf(values, "date"), sample_size) THEN "date"
            ELSE IF OverThreshold(CountOf(values, "boolean"), sample_size) THEN "boolean"
            ELSE "text"

\* DataProcessor._get_applied_transformations: the metadata entry
\* transformations_applied of a processed source
CommonTransformations ==
    << "Nettoyage des valeurs nulles", "Normalisation des chaines de caracteres",
       "Validation des types de donnees", "Calcul metriques de qualite" >>

GetAppliedTransformations(data_type) ==
    CASE data_type = "budget" ->
            CommonTransformations \o << "Validation montants budgetaires",
                                        "Formatage devises",
                                        "Verification coherence pourcentages" >>
      [] data_type = "participation" ->
            CommonTransformations \o << "Validation codes arrondissements",
                                        "Calcul taux de participation",
                                        "Validation plages de satisfaction" >>
      [] OTHER -> CommonTransformations

\* metadata.get('transformations_applied', []) of an entry of processed_data:
\* an entry {"error": ...} has no metadata
TransformationsApplied(source_data) ==
    IF source_data.error THEN <<>> ELSE GetAppliedTransformations(source_data.data_type)

\* all_transformations.extend(transformations) over processed_data.items()
RECURSIVE AllTransformations(_, _)
AllTransformations(processed_data, keys) ==
    IF keys = <<>> THEN <<>>
    ELSE TransformationsApplied(processed_data[Head(keys)])
         \o AllTransformations(processed_data, Tail(keys))

\* list.count(x)
Count(s, x) == Cardinality({i \in DOMAIN s : s[i] = x})

\* the strings the generator puts into a set, in one fixed order
TransformationNames ==
    GetAppliedTransformations("budget")
    \o SubSeq(GetAppliedTransformations("participation"), 5, 7)

\* the seeds of str.__hash__ a process can start with
HashSeeds == {0, 1}

\* the order in which a set of str is iterated: it follows the hashes of the
\* elements, which the seed of the process fixes and which differ from one
\* process to the next.  Two orders stand for it.
RECURSIVE IterPositions(_, _, _)
IterPositions(S, positions, hash_seed) ==
    IF positions = <<>> THEN <<>>
    ELSE LET p == IF hash_seed = 0 THEN Head(positions) ELSE positions[Len(positions)]
             rest == IF hash_seed = 0 THEN Tail(positions)
                     ELSE SubSeq(positions, 1, Len(positions) - 1)
         IN (IF TransformationNames[p] \in S THEN <<TransformationNames[p]>> ELSE <<>>)
            \o IterPositions(S, rest, hash_seed)

SetIteration(S, hash_seed) ==
    IterPositions(S, [i \in 1..Len(TransformationNames) |-> i], hash_seed)

\* max(iterable, key=...): the first element with the greatest key
RECURSIVE MaxByCount(_, _)
MaxByCount(order, s) ==
    IF Len(order) = 1 THEN Head(order)
    ELSE LET m == MaxByCount(Tail(order), s)
         IN IF Count(s, Head(order)) >= Count(s, m) THEN Head(order) ELSE m

\* AutoDocumentationGenerator._generate_transformation_summary
GenerateTransformationSummary(processed_data, fusion_result, hash_seed) ==
    LET all_transformations == AllTransformations(processed_data,
                                                  SetToSeq(DOMAIN processed_data))
        unique == {all_transformations[i] : i \in DOMAIN all_transformations}
    IN [total_transformations |-> Len(all_transformations),
        unique_transformations |-> SetIteration(unique, hash_seed),
        transformation_frequency |-> [t \in unique |-> Count(all_transformations, t)],
        most_common_transformation |->
            IF all_transformations # <<>>
            THEN MaxByCount(SetIteration(unique, hash_seed), all_transformations)
            ELSE "None",
        fusion_applied |-> fusion_result.present]

\* the bundle generate_comprehensive_documentation returns when it reads the
\* clock at now in a process of seed hash_seed: generation_metadata carries
\* datetime.now().isoformat(); the source and fusion parts are those of
\* GenerateComprehensiveDocumentation
DocumentationBundle(processed_data, fusion_result, now, hash_seed) ==
    [generation_metadata |->
         [generated_at |-> now, generator_version |-> "1.0.0",
          total_sources |-> Cardinality(DOMAIN processed_data),
          includes_fusion |-> fusion_result.present],
     source_documentation |->
         GenerateComprehensiveDocumentation(processed_data, fusion_result).source_documentation,
     fusion_documented |->
         GenerateComprehensiveDocumentation(processed_data, fusion_result).includes_fusion,
     transformation_summary |->
         GenerateTransformationSummary(processed_data, fusion_result, hash_seed)]

\* the value None of the documentation
NoDocumentation ==
    [present |-> FALSE, source_documentation |-> EmptyDict, includes_fusion |-> FALSE]

\* ------------------------------------------------ models/permissions.py
\* the can_ columns of ProjectPermission, without the prefix
PermissionNames ==
    {"view_project", "view_datasets", "view_comments", "edit_project",
     "delete_project", "upload_datasets", "delete_datasets", "create_comments",
     "edit_comments", "delete_comments", "moderate_comments", "manage_users",
     "export_data"}

ProjectRoles == {"admin", "moderator", "user"}

\* ProjectPermission.get_default_permissions_for_role: the permissions set
\* to True
GetDefaultPermissionsForRole(role) ==
    CASE role = "admin" -> PermissionNames
      [] role = "moderator" ->
            {"view_project", "view_datasets", "view_comments", "upload_datasets",
             "create_comments", "edit_comments", "delete_comments",
             "moderate_comments", "export_data"}
      [] OTHER ->
            {"view_project", "view_datasets", "view_comments", "upload_datasets",
             "create_comments"}

\* the value None of expires_at
NoExpiry == 0

\* ProjectPermission.is_expired at utcnow() = now
IsExpired(row, now) == row.expires_at # NoExpiry /\ row.expires_at < now

\* ProjectPermission.has_permission (is_active is never cleared by the
\* service, a row found by the query is active)
HasPermission(row, permission, now) ==
    IF row.expires_at # NoExpiry /\ row.expires_at < now THEN FALSE
    ELSE permission \in row.granted

\* a new row after apply_role_permissions
PermissionRow(role, expires_at) ==
    [role |-> role, granted |-> GetDefaultPermissionsForRole(role),
     expires_at |-> expires_at]

\* ------------------------------------------ services/permission_service.py
\* the value None of a role
NoRole == "none"

\* PermissionService.get_effective_project_role; rows is the table of
\* active project_permissions of the project, by user id
GetEffectiveProjectRole(user, project, rows, now) ==
    IF user.role = "admin" THEN "admin"
    ELSE IF project.owner_id = user.id THEN "admin"
    ELSE IF user.id \in DOMAIN rows /\ ~IsExpired(rows[user.id], now)
         THEN rows[user.id].role
    ELSE IF user.role = "moderator" /\ project.visibility = "public" THEN "moderator"
    ELSE IF project.visibility = "public" THEN "user"
    ELSE NoRole

\* PermissionService.check_permission
CheckPermission(user, project, rows, now, permission, allow_global_admin) ==
    IF allow_global_admin /\ user.role = "admin" THEN TRUE
    ELSE LET effective_role == GetEffectiveProjectRole(user, project, rows, now)
         IN IF effective_role = NoRole THEN FALSE
            ELSE IF user.id \in DOMAIN rows /\ ~IsExpired(rows[user.id], now)
                 THEN HasPermission(rows[user.id], permission, now)
            ELSE permission \in GetDefaultPermissionsForRole(effective_role)

\* --------------------------------------- middleware/security_middleware.py
\* the window of _cleanup_old_requests: minute_ago = now - 60
Window == 60

\* [req_time for req_time in times if req_time > minute_ago]
RECURSIVE RecentOf(_, _)
RecentOf(times, minute_ago) ==
    IF times = <<>> THEN <<>>
    ELSE (IF Head(times) > minute_ago THEN <<Head(times)>> ELSE <<>>)
         \o RecentOf(Tail(times), minute_ago)

\* RateLimitMiddleware._cleanup_old_requests: old timestamps are removed and
\* an IP whose list became empty is deleted
CleanupOldRequests(requests, now) ==
    LET kept == [ip \in DOMAIN requests |-> RecentOf(requests[ip], now - Window)]
    IN [ip \in {x \in DOMAIN kept : kept[x] # <<>>} |-> kept[ip]]

\* a limit test that lets one more request through
OverLimitOffByOne(count, requests_per_minute) == count > requests_per_minute

\* len(self.requests[client_ip]) >= self.requests_per_minute
OverLimit(count, requests_per_minute) == count >= requests_per_minute

\* RateLimitMiddleware.dispatch up to "await call_next(request)": the table
\* after the request and the status answered (200 stands for the response
\* of call_next)
Dispatch(requests, requests_per_minute, client_ip, now) ==
    LET cleaned == CleanupOldRequests(requests, now)
    IN IF client_ip \in DOMAIN cleaned
          /\ OverLimit(Len(cleaned[client_ip]), requests_per_minute)
       THEN [requests |-> cleaned, status |-> 429]
       ELSE [requests |->
                [ip \in DOMAIN cleaned \cup {client_ip} |->
                    IF ip = client_ip
                    THEN Append(IF ip \in DOMAIN cleaned THEN cleaned[ip] ELSE <<>>, now)
                    ELSE cleaned[ip]],
             status |-> 200]

\* -------------------------------------------------------------- pipeline.py
Invocations == 1..MaxCalls

\* the source_keys arguments tried: an unregistered key (no source left, as
\* with the empty list) and a registered key together with an unregistered
\* one
SourceKeyArgs ==
    { {"paris_participation"},
      {"transport_national", "paris_participation"} }

RunPcs == {"fetching", "process", "fuse", "document", "inject", "report"}

NoCall == [op |-> "none", source_keys |-> {}, use_mock_data |-> FALSE]

\* last_run = None
NoRun == [pipeline_id |-> 0, status |-> "none"]

VARIABLES
    is_running,         \* DataPipeline.is_running
    last_run,           \* DataPipeline.last_run
    sources,            \* DataSourceManager.sources: the active source keys
    db,                 \* the committed rows of the sink (projects, datasets)
    loop,               \* the invocation holding the event loop, 0 if none
    pc,                 \* where each invocation is
    call,               \* the operation and arguments of each invocation
    original_sources,   \* run_partial_pipeline's local original_sources
    tasks,              \* fetch_all_sources: tasks not yet finished
    fetched,            \* fetch_all_sources: results
    raw_data,           \* run_full_pipeline's local raw_data
    processed_data,     \* run_full_pipeline's local processed_data
    fusion_result,      \* run_full_pipeline's local fusion_result
    fuse_sources_called, \* _fuse_data: whether it called the fusion engine
    documentation,      \* run_full_pipeline's local documentation
    injection_results,  \* run_full_pipeline's local injection_results
    result,             \* what each invocation returned
    faults,             \* how many stage faults the environment has caused
    fusion_call,        \* a direct call of DataFusion.fuse_sources
    processor_call,     \* a direct call of a DataProcessor method
    documentation_call, \* direct calls of generate_comprehensive_documentation
    infer_call,         \* a direct call of _infer_field_type
    permission_service, \* a PermissionService with its session's tables
    rate_limit          \* a RateLimitMiddleware and the requests it has seen

globals == <<is_running, last_run, sources, db>>
locals == <<original_sources, tasks, fetched, raw_data, processed_data,
            fusion_result, fuse_sources_called, documentation, injection_results>>
vars == <<is_running, last_run, sources, db, loop, pc, call, original_sources,
          tasks, fetched, raw_data, processed_data, fusion_result,
          fuse_sources_called, documentation, injection_results, result, faults,
          fusion_call, processor_call, documentation_call, infer_call,
          permission_service, rate_limit>>

\* no direct fusion call is under way
NoFusionCall ==
    [state |-> "none", processed_data |-> EmptyDict, fusion_type |-> "civic_engagement",
     raised |-> FALSE, result |-> NoFusionResult]

\* the empty sink.  projects: for a project title (one per source key) the
\* number of rows with that title; datasets: for a dataset name (one per
\* source key) the rows_count of every row with that name
EmptySink == [projects |-> EmptyDict, datasets |-> EmptyDict]

\* DataPipeline.__init__ and DataSourceManager.__init__
InitPipeline ==
    /\ is_running = FALSE
    /\ last_run = NoRun
    /\ sources = RegistrySources
    /\ db = EmptySink
    /\ loop = 0
    /\ pc = [i \in Invocations |-> "idle"]
    /\ call = [i \in Invocations |-> NoCall]
    /\ original_sources = [i \in Invocations |-> {}]
    /\ tasks = [i \in Invocations |-> {}]
    /\ fetched = [i \in Invocations |-> EmptyDict]
    /\ raw_data = [i \in Invocations |-> EmptyDict]
    /\ processed_data = [i \in Invocations |-> EmptyDict]
    /\ fusion_result = [i \in Invocations |-> NoFusionResult]
    /\ fuse_sources_called = [i \in Invocations |-> FALSE]
    /\ documentation = [i \in Invocations |-> NoDocumentation]
    /\ injection_results = [i \in Invocations |-> EmptyDict]
    /\ result = [i \in Invocations |-> "none"]
    /\ faults = 0

\* no direct processor call is under way
NoProcessorCall ==
    [state |-> "none", method |-> "none", data_type |-> "general", data |-> <<>>,
     value |-> <<>>,
     metrics |-> [completeness |-> 0, consistency |-> 0, validity |-> 0,
                  overall_score |-> 0, quality_level |-> "poor"],
     number |-> [num |-> 0, den |-> 1],
     raw |-> <<>>, cleaned |-> <<>>]

\* no direct documentation call is under way
NoDocumentationCall ==
    [state |-> "none", processed_data |-> EmptyDict, fusion_result |-> NoFusionResult,
     hash_seed |-> 0, clock |-> 0, bundles |-> <<>>]

\* no direct call of _infer_field_type is under way
NoInferCall == [state |-> "none", values |-> <<>>, field_type |-> "unknown"]

\* no PermissionService is in use
NoPermissionService ==
    [state |-> "none", user |-> [id |-> 0, role |-> "user"],
     project |-> [owner_id |-> 0, visibility |-> "public"],
     rows |-> EmptyDict, now |-> 0,
     check |-> [made |-> FALSE, permission |-> "view_project",
                allow_global_admin |-> TRUE, explicit |-> FALSE, result |-> FALSE]]

\* no RateLimitMiddleware is installed
NoRateLimit ==
    [state |-> "none", requests_per_minute |-> 0, requests |-> EmptyDict, now |-> 0,
     served |-> <<>>]

\* the direct calls of the collaborators
direct_calls == <<fusion_call, processor_call, documentation_call, infer_call,
                 permission_service, rate_limit>>

Init ==
    /\ InitPipeline
    /\ fusion_call = NoFusionCall
    /\ processor_call = NoProcessorCall
    /\ documentation_call = NoDocumentationCall
    /\ infer_call = NoInferCall
    /\ permission_service = NoPermissionService
    /\ rate_limit = NoRateLimit

\* the frame of a finished coroutine is dropped
DropFrame(i) ==
    /\ tasks' = [tasks EXCEPT ![i] = {}]
    /\ fetched' = [fetched EXCEPT ![i] = EmptyDict]
    /\ raw_data' = [raw_data EXCEPT ![i] = EmptyDict]
    /\ processed_data' = [processed_data EXCEPT ![i] = EmptyDict]
    /\ fusion_result' = [fusion_result EXCEPT ![i] = NoFusionResult]
    /\ fuse_sources_called' = [fuse_sources_called EXCEPT ![i] = FALSE]
    /\ documentation' = [documentation EXCEPT ![i] = NoDocumentation]
    /\ injection_results' = [injection_results EXCEPT ![i] = EmptyDict]

\* invocation i is the i-th call made
IsNextCall(i) ==
    /\ pc[i] = "idle"
    /\ \A j \in Invocations : j < i => pc[j] # "idle"

\* a guard that lets every call through
GuardOff(running) == FALSE

\* the guard of run_full_pipeline and run_partial_pipeline
Guard(running) == running

\* a rejection that records its error result as the last run
RejectRecordsError(i, op, source_keys, use_mock_data) ==
    /\ pc' = [pc EXCEPT ![i] = "done"]
    /\ result' = [result EXCEPT ![i] = "already_running"]
    /\ call' = [call EXCEPT ![i] = [NoCall EXCEPT !.op = op]]
    /\ last_run' = [pipeline_id |-> i, status |-> "error"]
    /\ UNCHANGED <<is_running, sources, db, locals, loop, faults>>

\* "if self.is_running: return {error: ...}": nothing but the return value
Reject(i, op, source_keys, use_mock_data) ==
    /\ pc' = [pc EXCEPT ![i] = "done"]
    /\ result' = [result EXCEPT ![i] = "already_running"]
    /\ call' = [call EXCEPT ![i] = [NoCall EXCEPT !.op = op]]
    /\ UNCHANGED <<globals, locals, loop, faults>>

\* run_full_pipeline from the guard to the first suspension: is_running is
\* set, fixtures are taken (no suspension) or one fetch task per active
\* source is created and the coroutine suspends on their join.  active is
\* the registry's source set at that moment.
Enter(i, use_mock_data, active) ==
    /\ is_running' = TRUE
    /\ IF use_mock_data
       THEN /\ raw_data' = [raw_data EXCEPT ![i] = GetMockData]
            /\ pc' = [pc EXCEPT ![i] = "process"]
            /\ loop' = i
            /\ UNCHANGED tasks
       ELSE /\ tasks' = [tasks EXCEPT ![i] = active]
            /\ pc' = [pc EXCEPT ![i] = "fetching"]
            /\ loop' = 0
            /\ UNCHANGED raw_data
    /\ UNCHANGED <<last_run, db, fetched, processed_data, fusion_result,
                   fuse_sources_called, documentation, injection_results, result,
                   faults>>

\* DataPipeline.run_full_pipeline is called
RunFullPipeline(i, use_mock_data) ==
    /\ IsNextCall(i) /\ loop = 0
    /\ IF Guard(is_running)
       THEN Reject(i, "run_full", {}, use_mock_data)
       ELSE /\ Enter(i, use_mock_data, sources)
            /\ call' = [call EXCEPT ![i] = [op |-> "run_full", source_keys |-> {},
                                            use_mock_data |-> use_mock_data]]
            /\ UNCHANGED <<sources, original_sources>>

\* a run_partial_pipeline that replaces the registry's sources before it
\* tests whether any source is left
RunPartialPipelineReplacesFirst(i, source_keys, use_mock_data) ==
    /\ IsNextCall(i) /\ loop = 0
    /\ LET filtered_sources == sources \cap source_keys
           args == [op |-> "run_partial", source_keys |-> source_keys,
                    use_mock_data |-> use_mock_data]
       IN IF Guard(is_running)
          THEN Reject(i, "run_partial", source_keys, use_mock_data)
          ELSE IF filtered_sources = {}
          THEN /\ pc' = [pc EXCEPT ![i] = "done"]
               /\ result' = [result EXCEPT ![i] = "no_valid_source"]
               /\ call' = [call EXCEPT ![i] = [NoCall EXCEPT !.op = "run_partial"]]
               /\ sources' = filtered_sources
               /\ UNCHANGED <<is_running, last_run, db, locals, loop, faults>>
          ELSE /\ original_sources' = [original_sources EXCEPT ![i] = sources]
               /\ sources' = filtered_sources
               /\ call' = [call EXCEPT ![i] = args]
               /\ Enter(i, use_mock_data, filtered_sources)

\* DataPipeline.run_partial_pipeline is called
RunPartialPipeline(i, source_keys, use_mock_data) ==
    /\ IsNextCall(i) /\ loop = 0
    /\ LET filtered_sources == sources \cap source_keys
           args == [op |-> "run_partial", source_keys |-> source_keys,
                    use_mock_data |-> use_mock_data]
       IN IF Guard(is_running)
          THEN Reject(i, "run_partial", source_keys, use_mock_data)
          ELSE IF filtered_sources = {}
          THEN /\ pc' = [pc EXCEPT ![i] = "done"]
               /\ result' = [result EXCEPT ![i] = "no_valid_source"]
               /\ call' = [call EXCEPT ![i] = [NoCall EXCEPT !.op = "run_partial"]]
               /\ UNCHANGED <<globals, locals, loop, faults>>
          ELSE /\ original_sources' = [original_sources EXCEPT ![i] = sources]
               /\ sources' = filtered_sources
               /\ call' = [call EXCEPT ![i] = args]
               /\ Enter(i, use_mock_data, filtered_sources)

\* a fetch_all_sources that gives up the batch at the first failed fetch
FetchTaskDoneAbortsBatch(i, key, payload) ==
    /\ pc[i] = "fetching" /\ loop = 0
    /\ key \in tasks[i]
    /\ payload \in FetchData(key)
    /\ tasks' = [tasks EXCEPT ![i] = IF HasError(payload) THEN {} ELSE @ \ {key}]
    /\ fetched' = [fetched EXCEPT ![i] = (key :> payload) @@ @]
    /\ UNCHANGED <<globals, loop, pc, call, original_sources, raw_data,
                   processed_data, fusion_result, fuse_sources_called,
                   documentation, injection_results, result, faults>>

\* DataSourceManager.fetch_data as one task of fetch_all_sources: the task
\* of source key finishes with the payload the network produced (every
\* exception inside fetch_data becomes an error payload)
FetchTaskDone(i, key, payload) ==
    /\ pc[i] = "fetching" /\ loop = 0
    /\ key \in tasks[i]
    /\ payload \in FetchData(key)
    /\ tasks' = [tasks EXCEPT ![i] = @ \ {key}]
    /\ fetched' = [fetched EXCEPT ![i] = (key :> payload) @@ @]
    /\ UNCHANGED <<globals, loop, pc, call, original_sources, raw_data,
                   processed_data, fusion_result, fuse_sources_called,
                   documentation, injection_results, result, faults>>

\* an acquisition that also falls back when every payload carries an error
AcquireDataFallsBackOnErrors(results) ==
    IF \/ \E k \in DOMAIN results : results[k].kind = "scalar"
       \/ \A k \in DOMAIN results : HasError(results[k])
    THEN GetMockData
    ELSE results

\* DataPipeline._acquire_data after fetch_all_sources returned: the logging
\* loop tests 'error' in data, which raises TypeError on a payload that is
\* no container; the except branch then falls back to the fixtures
AcquireData(results) ==
    IF \E k \in DOMAIN results : results[k].kind = "scalar"
    THEN GetMockData
    ELSE results

\* all fetch tasks are joined: the run resumes and owns the loop to its end
AcquireResume(i) ==
    /\ pc[i] = "fetching" /\ loop = 0
    /\ tasks[i] = {}
    /\ raw_data' = [raw_data EXCEPT ![i] = AcquireData(fetched[i])]
    /\ pc' = [pc EXCEPT ![i] = "process"]
    /\ loop' = i
    /\ UNCHANGED <<globals, call, original_sources, tasks, fetched,
                   processed_data, fusion_result, fuse_sources_called,
                   documentation, injection_results, result, faults>>

\* DataPipeline._process_data: error payloads are skipped; a source whose
\* processing raises (a payload without .get) gets an error entry
ProcessAll(raw) ==
    [k \in {x \in DOMAIN raw : ~HasError(raw[x])} |->
        IF raw[k].kind = "dict"
        THEN ProcessData(raw[k], GetDataTypeFromSource(k))
        ELSE ProcessError]

Process(i) ==
    /\ pc[i] = "process" /\ loop = i
    /\ processed_data' = [processed_data EXCEPT ![i] = ProcessAll(raw_data[i])]
    /\ pc' = [pc EXCEPT ![i] = "fuse"]
    /\ UNCHANGED <<globals, loop, call, original_sources, tasks, fetched, raw_data,
                   fusion_result, fuse_sources_called, documentation,
                   injection_results, result, faults>>

\* valid_sources of _fuse_data
ValidSources(processed) ==
    {k \in DOMAIN processed : HasData(processed[k]) /\ ~processed[k].error}

\* a fusion stage that calls the engine as soon as one source is valid
FuseDataOneSource(processed) ==
    IF Cardinality(ValidSources(processed)) < 1
    THEN [called |-> FALSE, result |-> NoFusionResult]
    ELSE LET r == FuseSources(processed, "civic_engagement")
         IN [called |-> TRUE, result |-> IF r.raised THEN NoFusionResult ELSE r.result]

\* DataPipeline._fuse_data: None with fewer than 2 valid sources (the engine
\* is not called) or when the fusion engine raises
FuseData(processed) ==
    IF Cardinality(ValidSources(processed)) < 2
    THEN [called |-> FALSE, result |-> NoFusionResult]
    ELSE LET r == FuseSources(processed, "civic_engagement")
         IN [called |-> TRUE, result |-> IF r.raised THEN NoFusionResult ELSE r.result]

Fuse(i) ==
    /\ pc[i] = "fuse" /\ loop = i
    /\ LET fused == FuseData(processed_data[i])
       IN /\ fusion_result' = [fusion_result EXCEPT ![i] = fused.result]
          /\ fuse_sources_called' = [fuse_sources_called EXCEPT ![i] = fused.called]
    /\ pc' = [pc EXCEPT ![i] = "document"]
    /\ UNCHANGED <<globals, loop, call, original_sources, tasks, fetched, raw_data,
                   processed_data, documentation, injection_results, result, faults>>

\* DataPipeline._generate_documentation: None when the generator raises
Document(i, raises) ==
    /\ pc[i] = "document" /\ loop = i
    /\ documentation' = [documentation EXCEPT ![i] =
           IF raises THEN NoDocumentation
           ELSE GenerateComprehensiveDocumentation(processed_data[i], fusion_result[i])]
    /\ pc' = [pc EXCEPT ![i] = "inject"]
    /\ raises => faults < MaxFaults
    /\ faults' = faults + (IF raises THEN 1 ELSE 0)
    /\ UNCHANGED <<globals, loop, call, original_sources, tasks, fetched, raw_data,
                   processed_data, fusion_result, fuse_sources_called,
                   injection_results, result>>

\* finally clauses in which run_partial_pipeline forgets to put the sources back
FinallyNoRestore(i) ==
    /\ is_running' = FALSE
    /\ sources' = sources
    /\ original_sources' = [original_sources EXCEPT ![i] = {}]
    /\ pc' = [pc EXCEPT ![i] = "done"]
    /\ loop' = 0
    /\ DropFrame(i)
    /\ call' = [call EXCEPT ![i] = [NoCall EXCEPT !.op = call[i].op]]

\* the finally clauses: run_full_pipeline clears is_running, then
\* run_partial_pipeline puts original_sources back
Finally(i) ==
    /\ is_running' = FALSE
    /\ sources' = IF call[i].op = "run_partial" THEN original_sources[i] ELSE sources
    /\ original_sources' = [original_sources EXCEPT ![i] = {}]
    /\ pc' = [pc EXCEPT ![i] = "done"]
    /\ loop' = 0
    /\ DropFrame(i)
    /\ call' = [call EXCEPT ![i] = [NoCall EXCEPT !.op = call[i].op]]

\* an except branch that returns without clearing is_running (the flag reset
\* only at the end of the try body)
ReturnErrorKeepsFlag(i) ==
    /\ result' = [result EXCEPT ![i] = "error"]
    /\ UNCHANGED <<last_run, is_running>>
    /\ sources' = IF call[i].op = "run_partial" THEN original_sources[i] ELSE sources
    /\ original_sources' = [original_sources EXCEPT ![i] = {}]
    /\ pc' = [pc EXCEPT ![i] = "done"]
    /\ loop' = 0
    /\ DropFrame(i)
    /\ call' = [call EXCEPT ![i] = [NoCall EXCEPT !.op = call[i].op]]

\* the except branch of run_full_pipeline: an error result, last_run as it was
ReturnError(i) ==
    /\ result' = [result EXCEPT ![i] = "error"]
    /\ UNCHANGED last_run
    /\ Finally(i)

InjectFaults == {"none", "session", "source", "fusion", "commit"}

\* the injections a fault is tried on: of the first source and of the fusion
InjectFaultKeys == {"paris_budget", "fusion"}

\* the entries _inject_data writes for the processed sources and the fusion
InjectionResults(processed, fusion, fault, key) ==
    LET srcs == {k \in DOMAIN processed : ~processed[k].error}
        withFusion == fusion.present /\ fusion.fused_data # <<>>
        keys == srcs \cup (IF withFusion THEN {"fusion"} ELSE {})
    IN [k \in keys |->
          IF k = "fusion"
          THEN IF fault = "fusion"
               THEN [error |-> TRUE, records_inserted |-> 0]
               ELSE [error |-> FALSE, records_inserted |-> fusion.records_merged]
          ELSE IF fault = "source" /\ k = key
               THEN [error |-> TRUE, records_inserted |-> 0]
               ELSE [error |-> FALSE, records_inserted |-> Len(processed[k].data)]]

\* the datasets _inject_source_data and _inject_fusion_data add to the session
WrittenDatasets(inj) ==
    {k \in DOMAIN inj : ~inj[k].error /\ inj[k].records_inserted > 0}

\* a _get_or_create_project that inserts without looking for the title
GetOrCreateProjectBlind(sink, key) ==
    [sink EXCEPT !.projects =
        IF key \in DOMAIN @ THEN [@ EXCEPT ![key] = @ + 1] ELSE (key :> 1) @@ @]

\* DataPipeline._get_or_create_project: the title is a function of the data
\* type and the source key, so of the source key
GetOrCreateProject(sink, key) ==
    IF key \in DOMAIN sink.projects THEN sink
    ELSE [sink EXCEPT !.projects = (key :> 1) @@ @]

\* DataPipeline._get_or_create_dataset (name and project_id, so the source
\* key) and the update of rows_count on the row returned: query.first() or
\* the new row
GetOrCreateDataset(sink, key, rows_count) ==
    IF key \in DOMAIN sink.datasets
    THEN [sink EXCEPT !.datasets[key] = [@ EXCEPT ![1] = rows_count]]
    ELSE [sink EXCEPT !.datasets = (key :> <<rows_count>>) @@ @]

\* _inject_source_data and _inject_fusion_data for the keys written, one
\* after the other in the same session
RECURSIVE InjectInto(_, _, _)
InjectInto(sink, keys, inj) ==
    IF keys = <<>> THEN sink
    ELSE InjectInto(GetOrCreateDataset(GetOrCreateProject(sink, Head(keys)), Head(keys),
                                       inj[Head(keys)].records_inserted),
                    Tail(keys), inj)

\* DataPipeline._inject_data.  fault names what raises: opening the session
\* (before the try), the injection of source key or of the fusion (caught,
\* an error entry), or the commit (rollback and re-raise).
Inject(i, fault, key) ==
    /\ pc[i] = "inject" /\ loop = i
    /\ fault = "source" => key \in DOMAIN processed_data[i] /\ ~processed_data[i][key].error
    /\ fault # "source" => key = "fusion"
    /\ fault = "fusion" => fusion_result[i].present /\ fusion_result[i].fused_data # <<>>
    /\ fault # "none" => faults < MaxFaults
    /\ faults' = faults + (IF fault # "none" THEN 1 ELSE 0)
    /\ IF fault \in {"session", "commit"}
       THEN /\ ReturnError(i)
            /\ UNCHANGED db
       ELSE LET inj == InjectionResults(processed_data[i], fusion_result[i], fault, key)
            IN /\ injection_results' = [injection_results EXCEPT ![i] = inj]
               /\ db' = InjectInto(db, SetToSeq(WrittenDatasets(inj)), inj)
               /\ pc' = [pc EXCEPT ![i] = "report"]
               /\ UNCHANGED <<is_running, last_run, sources, loop, call,
                              original_sources, tasks, fetched, raw_data,
                              processed_data, fusion_result, fuse_sources_called,
                              documentation, result>>

RECURSIVE SumOver(_, _)
SumOver(d, field) ==
    IF DOMAIN d = {} THEN 0
    ELSE LET k == CHOOSE x \in DOMAIN d : TRUE
         IN d[k][field] + SumOver([y \in DOMAIN d \ {k} |-> d[y]], field)

\* the results dict of run_full_pipeline
Summary(i, raw, processed, fusion, doc, inj) ==
    [pipeline_id |-> i,
     status |-> "completed",
     data_sources |-> Cardinality(DOMAIN raw),
     processed_records |-> SumOver(processed, "processed_rows"),
     fused_records |-> fusion.records_merged,
     injected_records |-> SumOver(inj, "records_inserted"),
     documentation_generated |-> doc.present,
     acquisition |-> [k \in DOMAIN raw |-> IF HasError(raw[k]) THEN "error" ELSE "success"],
     processing |-> [k \in DOMAIN processed |->
                        IF processed[k].error THEN "error" ELSE "success"],
     fusion |-> IF fusion.present THEN "completed" ELSE "skipped",
     documentation |-> IF doc.present THEN "completed" ELSE "failed",
     sources_documented |-> DOMAIN doc.source_documentation,
     injection |-> inj]

\* the final report of run_full_pipeline: len(data.get('data', [])) raises on
\* a raw payload that is no dict, which ends the run in the except branch;
\* otherwise the summary is stored in last_run and returned
Report(i) ==
    /\ pc[i] = "report" /\ loop = i
    /\ UNCHANGED <<db, faults>>
    /\ IF \E k \in DOMAIN raw_data[i] : raw_data[i][k].kind = "list"
       THEN ReturnError(i)
       ELSE /\ last_run' = Summary(i, raw_data[i], processed_data[i], fusion_result[i],
                                   documentation[i], injection_results[i])
            /\ result' = [result EXCEPT ![i] = "completed"]
            /\ Finally(i)

\* the task running the invocation is cancelled while it waits for the
\* fetches: CancelledError is no Exception, so neither _acquire_data nor the
\* except branch of run_full_pipeline sees it; only the finally clauses run
Cancel(i) ==
    /\ pc[i] = "fetching" /\ loop = 0
    /\ result' = [result EXCEPT ![i] = "raised"]
    /\ UNCHANGED <<last_run, db, faults>>
    /\ Finally(i)

Next ==
    \/ \E i \in Invocations, m \in BOOLEAN :
          RunFullPipeline(i, m) /\ UNCHANGED direct_calls
    \/ \E i \in Invocations, ks \in SourceKeyArgs, m \in BOOLEAN :
          RunPartialPipeline(i, ks, m) /\ UNCHANGED direct_calls
    \/ \E i \in Invocations, k \in RegistrySources :
          \E p \in FetchData(k) : FetchTaskDone(i, k, p) /\ UNCHANGED direct_calls
    \/ \E i \in Invocations : AcquireResume(i) /\ UNCHANGED direct_calls
    \/ \E i \in Invocations : Cancel(i) /\ UNCHANGED direct_calls
    \/ \E i \in Invocations : Process(i) /\ UNCHANGED direct_calls
    \/ \E i \in Invocations : Fuse(i) /\ UNCHANGED direct_calls
    \/ \E i \in Invocations, r \in BOOLEAN : Document(i, r) /\ UNCHANGED direct_calls
    \/ \E i \in Invocations, f \in InjectFaults, k \in InjectFaultKeys :
          Inject(i, f, k) /\ UNCHANGED direct_calls
    \/ \E i \in Invocations : Report(i) /\ UNCHANGED direct_calls

Spec == Init /\ [][Next]_vars

\* ------------------------------------------- fuse_sources called directly
\* the processed rows a direct call is tried on: budget rows with a mapped
\* and an unmapped sector, participation rows of two arrondissements, of a
\* key without digits and without a key
BudgetRows ==
    { [secteur |-> "Education", montant |-> 1240000000],
      [secteur |-> "Logement", montant |-> 650000000],
      [secteur |-> "Voirie", montant |-> 1000000] }

ParticipationRows ==
    { [arrondissement |-> Arr("1", "1"), participants |-> 634],
      [arrondissement |-> Arr("0", "1"), participants |-> 12],
      [arrondissement |-> <<"P", "a", "r", "i", "s">>, participants |-> 40],
      [participants |-> 7] }

TransportRows == { [region |-> "IDF"] }

SeqsUpTo(S, n) == UNION {[1..m -> S] : m \in 0..n}

FusionKeys == {"paris_budget", "paris_participation", "transport_national"}

\* the entry of processed_data for source k with processed rows
ProcessedEntry(k, rows) ==
    [error |-> FALSE, data_type |-> GetDataTypeFromSource(k),
     raw_rows |-> Len(rows), processed_rows |-> Len(rows), data |-> rows]

\* a direct call: each source absent or present with up to MaxFusionRows
\* processed rows (one for transport), and a registered recipe
FusionInit ==
    /\ InitPipeline
    /\ \E present \in SUBSET FusionKeys, t \in FusionTypes,
          b \in SeqsUpTo(BudgetRows, MaxFusionRows),
          p \in SeqsUpTo(ParticipationRows, MaxFusionRows),
          tr \in SeqsUpTo(TransportRows, 1) :
          /\ "paris_budget" \notin present => b = <<>>
          /\ "paris_participation" \notin present => p = <<>>
          /\ "transport_national" \notin present => tr = <<>>
          /\ fusion_call =
                [state |-> "called",
                 processed_data |->
                    [k \in present |->
                        ProcessedEntry(k, CASE k = "paris_budget" -> b
                                            [] k = "paris_participation" -> p
                                            [] OTHER -> tr)],
                 fusion_type |-> t, raised |-> FALSE, result |-> NoFusionResult]
    /\ processor_call = NoProcessorCall
    /\ documentation_call = NoDocumentationCall
    /\ infer_call = NoInferCall
    /\ permission_service = NoPermissionService
    /\ rate_limit = NoRateLimit

\* DataFusion.fuse_sources runs to its end (it never suspends)
FuseSourcesCall ==
    /\ fusion_call.state = "called"
    /\ LET r == FuseSources(fusion_call.processed_data, fusion_call.fusion_type)
       IN fusion_call' = [fusion_call EXCEPT !.state = "returned",
                                             !.raised = r.raised,
                                             !.result = r.result]
    /\ UNCHANGED <<globals, locals, loop, pc, call, result, faults, processor_call,
                   documentation_call, infer_call, permission_service, rate_limit>>

FusionNext == FuseSourcesCall

FusionSpec == FusionInit /\ [][FusionNext]_vars

\* ------------------------------------- DataProcessor methods called directly
\* validated budget rows: text fields are opaque strings, montant in
\* hundreds of euros, pourcentage in tenths
QualityBudgetRows ==
    { [secteur |-> "Education", montant |-> 12400000, pourcentage |-> 312,
       annee |-> 2024, description |-> "Enseignement"],
      [secteur |-> "Sante", montant |-> 5200000, pourcentage |-> 688,
       annee |-> 2024, description |-> "Hopitaux"],
      [secteur |-> "Voirie", montant |-> 50, pourcentage |-> 874,
       annee |-> 2024, description |-> "Chaussees"],
      [secteur |-> "Dette", montant |-> 5, pourcentage |-> 0,
       annee |-> 2024, description |-> ""] }

\* validated participation rows, satisfaction in tenths
QualityParticipationRows ==
    { [arrondissement |-> "75011", nom |-> "11e arrondissement", participants |-> 634,
       projets_actifs |-> 12, commentaires |-> 289, satisfaction |-> 42,
       mois |-> "2024-01"],
      [arrondissement |-> "75015", nom |-> "15e arrondissement", participants |-> 0,
       projets_actifs |-> 3, commentaires |-> 0, satisfaction |-> 0,
       mois |-> "2024-01"],
      [arrondissement |-> "75010", nom |-> "10e arrondissement", participants |-> 20000,
       projets_actifs |-> 10, commentaires |-> 198, satisfaction |-> 41,
       mois |-> "2024-01"] }

\* cleaned rows of a type without validator rules
QualityOtherRows ==
    { [region |-> "IDF", valeur |-> 3], [region |-> "IDF", valeur |-> 0] }

QualityRows(data_type) ==
    CASE data_type = "budget" -> QualityBudgetRows
      [] data_type = "participation" -> QualityParticipationRows
      [] OTHER -> QualityOtherRows

DataTypes == {"budget", "participation", "transport", "general"}

\* the str values _parse_numeric is tried on
NumericTexts ==
    { <<"1", " ", "2", "3", "4", ",", "5", "6", " ", "EUR">>,
      <<"n", "o", "t", " ", "a", " ", "n", "u", "m", "b", "e", "r">>,
      <<"1", "2", "3", "4", ".", "5", "6">>,
      <<"1", "2", ",", "5">>,
      <<"-", "3", ".", "5">>,
      <<"$", " ", "1", "0", "0">>,
      <<"1", ".", "2", ".", "3">>,
      <<"4", "2">>,
      <<"EUR">>,
      <<>> }

\* the values a raw field is tried with: None, '', ' ', ' x ' and 5
RawValues ==
    { NoneValue, StrValue(<<>>), StrValue(<<" ">>), StrValue(<<" ", "x", " ">>),
      NumValue(5) }

\* the raw rows tried: dicts over two fields, and a row that is no dict
RawRows ==
    { [is_dict |-> TRUE, items |-> f] :
         f \in UNION {[d -> RawValues] : d \in SUBSET {"secteur", "montant"}} }
    \cup { [is_dict |-> FALSE, items |-> EmptyDict] }

\* a direct call of _calculate_quality_metrics on up to MaxQualityRows rows
\* of a data type, of _parse_numeric on a text, or of _clean_raw_data on up
\* to MaxRawRows raw rows
ProcessorInit ==
    /\ InitPipeline
    /\ fusion_call = NoFusionCall
    /\ documentation_call = NoDocumentationCall
    /\ infer_call = NoInferCall
    /\ permission_service = NoPermissionService
    /\ rate_limit = NoRateLimit
    /\ \/ \E t \in DataTypes : \E d \in SeqsUpTo(QualityRows(t), MaxQualityRows) :
             processor_call =
                [NoProcessorCall EXCEPT !.state = "called",
                                        !.method = "calculate_quality_metrics",
                                        !.data_type = t, !.data = d]
       \/ \E v \in NumericTexts :
             processor_call =
                [NoProcessorCall EXCEPT !.state = "called",
                                        !.method = "parse_numeric", !.value = v]
       \/ \E d \in SeqsUpTo(RawRows, MaxRawRows) :
             processor_call =
                [NoProcessorCall EXCEPT !.state = "called",
                                        !.method = "clean_raw_data", !.raw = d]

CalculateQualityMetricsCall ==
    /\ processor_call.state = "called"
    /\ processor_call.method = "calculate_quality_metrics"
    /\ processor_call' =
          [processor_call EXCEPT
              !.state = "returned",
              !.metrics = CalculateQualityMetrics(processor_call.data,
                                                  processor_call.data_type)]
    /\ UNCHANGED <<globals, locals, loop, pc, call, result, faults, fusion_call,
                   documentation_call, infer_call, permission_service, rate_limit>>

ParseNumericCall ==
    /\ processor_call.state = "called"
    /\ processor_call.method = "parse_numeric"
    /\ processor_call' =
          [processor_call EXCEPT !.state = "returned",
                                 !.number = ParseNumeric(processor_call.value)]
    /\ UNCHANGED <<globals, locals, loop, pc, call, result, faults, fusion_call,
                   documentation_call, infer_call, permission_service, rate_limit>>

CleanRawDataCall ==
    /\ processor_call.state = "called"
    /\ processor_call.method = "clean_raw_data"
    /\ processor_call' =
          [processor_call EXCEPT !.state = "returned",
                                 !.cleaned = CleanRawData(processor_call.raw)]
    /\ UNCHANGED <<globals, locals, loop, pc, call, result, faults, fusion_call,
                   documentation_call, infer_call, permission_service, rate_limit>>

ProcessorNext ==
    \/ CalculateQualityMetricsCall
    \/ ParseNumericCall
    \/ CleanRawDataCall

ProcessorSpec == ProcessorInit /\ [][ProcessorNext]_vars

\* ------------------- generate_comprehensive_documentation called directly
\* two calls in one process on the same processed_data and fusion_result:
\* each source absent or present with up to MaxDocRows processed rows, a
\* fusion result or None, the seed the process started with
DocumentationInit ==
    /\ InitPipeline
    /\ fusion_call = NoFusionCall
    /\ processor_call = NoProcessorCall
    /\ infer_call = NoInferCall
    /\ permission_service = NoPermissionService
    /\ rate_limit = NoRateLimit
    /\ \E present \in SUBSET FusionKeys, f \in {NoFusionResult, EmptyFusionResult},
          seed \in HashSeeds,
          b \in SeqsUpTo(BudgetRows, MaxDocRows),
          p \in SeqsUpTo(ParticipationRows, MaxDocRows),
          tr \in SeqsUpTo(TransportRows, 1) :
          /\ "paris_budget" \notin present => b = <<>>
          /\ "paris_participation" \notin present => p = <<>>
          /\ "transport_national" \notin present => tr = <<>>
          /\ documentation_call =
                [state |-> "called",
                 processed_data |->
                    [k \in present |->
                        ProcessedEntry(k, CASE k = "paris_budget" -> b
                                            [] k = "paris_participation" -> p
                                            [] OTHER -> tr)],
                 fusion_result |-> f, hash_seed |-> seed, clock |-> 0,
                 bundles |-> <<>>]

\* one call runs to its end: it reads the clock once and returns the bundle
GenerateDocumentationCall ==
    /\ documentation_call.state = "called"
    /\ Len(documentation_call.bundles) < 2
    /\ documentation_call' =
          [documentation_call EXCEPT
              !.bundles = Append(@, DocumentationBundle(documentation_call.processed_data,
                                                        documentation_call.fusion_result,
                                                        documentation_call.clock,
                                                        documentation_call.hash_seed))]
    /\ UNCHANGED <<globals, locals, loop, pc, call, result, faults, fusion_call,
                   processor_call, infer_call, permission_service, rate_limit>>

\* the reading of datetime.now() moves on
ClockTick ==
    /\ documentation_call.state = "called"
    /\ documentation_call.clock < MaxClock
    /\ documentation_call' = [documentation_call EXCEPT !.clock = @ + 1]
    /\ UNCHANGED <<globals, locals, loop, pc, call, result, faults, fusion_call,
                   processor_call, infer_call, permission_service, rate_limit>>

DocumentationNext ==
    \/ GenerateDocumentationCall
    \/ ClockTick

DocumentationSpec == DocumentationInit /\ [][DocumentationNext]_vars

\* ------------------------------------- _infer_field_type called directly
\* the texts a field value is tried with: a number, "1" (a number that is
\* also in the boolean list), a date, str(True) and a word
FieldTexts ==
    { <<"4", "2">>,
      <<"1">>,
      <<"2", "0", "2", "4", "-", "0", "1", "-", "1", "5">>,
      <<"T", "r", "u", "e">>,
      <<"a", "b", "c">> }

\* lists longer than the sample: n times one text, then m times another
RunLengths == { <<80, 20>>, <<81, 19>>, <<81, 30>>, <<100, 25>>, <<79, 2>> }

RunOf(a, n, b, m) == [i \in 1..(n + m) |-> IF i <= n THEN a ELSE b]

\* a direct call on up to MaxFieldValues values, or on a long list
InferInit ==
    /\ InitPipeline
    /\ fusion_call = NoFusionCall
    /\ processor_call = NoProcessorCall
    /\ documentation_call = NoDocumentationCall
    /\ permission_service = NoPermissionService
    /\ rate_limit = NoRateLimit
    /\ \/ \E v \in SeqsUpTo(FieldTexts, MaxFieldValues) :
             infer_call = [NoInferCall EXCEPT !.state = "called", !.values = v]
       \/ \E a \in FieldTexts, b \in FieldTexts, r \in RunLengths :
             infer_call = [NoInferCall EXCEPT !.state = "called",
                                              !.values = RunOf(a, r[1], b, r[2])]

InferFieldTypeCall ==
    /\ infer_call.state = "called"
    /\ infer_call' = [infer_call EXCEPT !.state = "returned",
                                        !.field_type = InferFieldType(infer_call.values)]
    /\ UNCHANGED <<globals, locals, loop, pc, call, result, faults, fusion_call,
                   processor_call, documentation_call, permission_service, rate_limit>>

InferNext == InferFieldTypeCall

InferSpec == InferInit /\ [][InferNext]_vars

\* -------------------------------------------- a PermissionService in use
UserRoles == {"admin", "moderator", "user"}

ProjectVisibilities == {"public", "private", "restricted"}

\* the permissions check_permission is asked for
CheckedPermissions == {"view_project", "edit_project", "export_data"}

\* the values of expires_at: None or an instant
ExpiryValues == {NoExpiry} \cup (1..MaxNow)

\* user 1 of some global role, a project owned by user 1 or by user 2, no
\* row in project_permissions
PermissionInit ==
    /\ InitPipeline
    /\ fusion_call = NoFusionCall
    /\ processor_call = NoProcessorCall
    /\ documentation_call = NoDocumentationCall
    /\ infer_call = NoInferCall
    /\ rate_limit = NoRateLimit
    /\ \E role \in UserRoles, owner \in {1, 2}, visibility \in ProjectVisibilities :
          permission_service =
             [NoPermissionService EXCEPT
                 !.state = "ready",
                 !.user = [id |-> 1, role |-> role],
                 !.project = [owner_id |-> owner, visibility |-> visibility]]

PermissionFrame ==
    UNCHANGED <<globals, locals, loop, pc, call, result, faults, fusion_call,
                processor_call, documentation_call, infer_call, rate_limit>>

\* PermissionService.create_project_permission for the user: 400 when an
\* active row exists
CreateProjectPermission(role, expires_at) ==
    /\ permission_service.state = "ready"
    /\ LET user_id == permission_service.user.id
           rows == permission_service.rows
       IN permission_service' =
             IF user_id \in DOMAIN rows THEN permission_service
             ELSE [permission_service EXCEPT
                      !.rows = [k \in DOMAIN rows \cup {user_id} |->
                                   IF k = user_id THEN PermissionRow(role, expires_at)
                                   ELSE rows[k]]]
    /\ PermissionFrame

\* PermissionService.update_project_permission: 404 without a row; a role
\* of None and an expires_at of None leave the column as it is
UpdateProjectPermission(role, expires_at) ==
    /\ permission_service.state = "ready"
    /\ LET user_id == permission_service.user.id
           rows == permission_service.rows
       IN permission_service' =
             IF user_id \notin DOMAIN rows THEN permission_service
             ELSE [permission_service EXCEPT
                      !.rows[user_id] =
                          [role |-> IF role # NoRole THEN role ELSE @.role,
                           granted |-> IF role # NoRole
                                       THEN GetDefaultPermissionsForRole(role)
                                       ELSE @.granted,
                           expires_at |-> IF expires_at # NoExpiry THEN expires_at
                                          ELSE @.expires_at]]
    /\ PermissionFrame

\* PermissionService.remove_project_permission: False without a row
RemoveProjectPermission ==
    /\ permission_service.state = "ready"
    /\ LET user_id == permission_service.user.id
           rows == permission_service.rows
       IN permission_service' =
             [permission_service EXCEPT
                 !.rows = [k \in DOMAIN rows \ {user_id} |-> rows[k]]]
    /\ PermissionFrame

\* a call of check_permission(user, project, permission, allow_global_admin);
\* explicit records whether get_user_project_permission finds a row
CheckPermissionCall(permission, allow_global_admin) ==
    /\ permission_service.state = "ready"
    /\ permission_service' =
          [permission_service EXCEPT
              !.check = [made |-> TRUE, permission |-> permission,
                         allow_global_admin |-> allow_global_admin,
                         explicit |-> permission_service.user.id
                                         \in DOMAIN permission_service.rows,
                         result |-> CheckPermission(permission_service.user,
                                                    permission_service.project,
                                                    permission_service.rows,
                                                    permission_service.now,
                                                    permission, allow_global_admin)]]
    /\ PermissionFrame

\* datetime.utcnow() moves on
UtcNowTick ==
    /\ permission_service.state = "ready"
    /\ permission_service.now < MaxNow + 1
    /\ permission_service' = [permission_service EXCEPT !.now = @ + 1]
    /\ PermissionFrame

PermissionNext ==
    \/ \E role \in ProjectRoles, e \in ExpiryValues : CreateProjectPermission(role, e)
    \/ \E role \in ProjectRoles \cup {NoRole}, e \in ExpiryValues :
          UpdateProjectPermission(role, e)
    \/ RemoveProjectPermission
    \/ \E p \in CheckedPermissions, a \in BOOLEAN : CheckPermissionCall(p, a)
    \/ UtcNowTick

PermissionSpec == PermissionInit /\ [][PermissionNext]_vars

\* ------------------------------------------ a RateLimitMiddleware in use
\* the client addresses requests come from
ClientIps == {"192.168.1.1", "192.168.1.2"}

\* the values of requests_per_minute the middleware is built with
RequestLimits == {1, 2}

\* by how many seconds time.time() has moved on when the next request
\* arrives
TimeSteps == {0, 1, Window - 1, Window}

\* RateLimitMiddleware.__init__: an empty table
RateLimitInit ==
    /\ InitPipeline
    /\ fusion_call = NoFusionCall
    /\ processor_call = NoProcessorCall
    /\ documentation_call = NoDocumentationCall
    /\ infer_call = NoInferCall
    /\ permission_service = NoPermissionService
    /\ \E n \in RequestLimits :
          rate_limit = [NoRateLimit EXCEPT !.state = "installed",
                                           !.requests_per_minute = n]

\* one request of client_ip is dispatched step seconds after the last one;
\* served keeps what was answered
DispatchRequest(client_ip, step) ==
    /\ rate_limit.state = "installed"
    /\ Len(rate_limit.served) < MaxRequests
    /\ LET now == rate_limit.now + step
           d == Dispatch(rate_limit.requests, rate_limit.requests_per_minute,
                         client_ip, now)
       IN rate_limit' =
             [rate_limit EXCEPT
                 !.now = now,
                 !.requests = d.requests,
                 !.served = Append(@, [ip |-> client_ip, at |-> now,
                                       status |-> d.status])]
    /\ UNCHANGED <<globals, locals, loop, pc, call, result, faults, fusion_call,
                   processor_call, documentation_call, infer_call, permission_service>>

RateLimitNext == \E ip \in ClientIps, step \in TimeSteps : DispatchRequest(ip, step)

RateLimitSpec == RateLimitInit /\ [][RateLimitNext]_vars

\* =================================================================== claims
Running == {i \in Invocations : pc[i] \in RunPcs}

\* invocation i is called in this step
Called(i) == pc[i] = "idle" /\ pc'[i] # "idle"

\* invocation i returns (or raises) in this step
Returns(i) == pc[i] # "done" /\ pc'[i] = "done"

\* C1: at most one invocation is past the is_running guard at any time, and
\* a call made while a run is active returns the "already running" error at
\* once: it is never queued and never enters the stages.
C1_AtMostOneRun ==
    [][ /\ Cardinality(Running') <= 1
        /\ \A i \in Invocations :
              (Called(i) /\ Running # {}) =>
                  (pc'[i] = "done" /\ result'[i] = "already_running") ]_vars

\* a call was rejected while another invocation is in its fetch stage
C1_Witness ==
    \E i, j \in Invocations :
        /\ i # j
        /\ pc[i] = "fetching"
        /\ pc[j] = "done" /\ result[j] = "already_running"

\* C2: run_full or run_partial called while is_running is true returns the
\* error result in the same step and leaves last_run as it was.
C2_RejectKeepsLastRun ==
    [][ \A i \in Invocations :
            (Called(i) /\ is_running) =>
                /\ pc'[i] = "done" /\ result'[i] = "already_running"
                /\ last_run' = last_run ]_vars

\* a run_partial call was rejected during a run of run_partial
C2_Witness ==
    \E i, j \in Invocations :
        /\ i # j
        /\ pc[i] \in RunPcs /\ call[i].op = "run_partial"
        /\ result[j] = "already_running" /\ call[j].op = "run_partial"
        /\ is_running

\* C3: is_running is true exactly while some invocation is inside the
\* stages: once a run has ended (summary, error result or exception) the
\* flag is false, so the guard never sticks.
C3_GuardNeverSticks ==
    is_running <=> (Running # {})

\* after a run that ended with an error result, a later call was accepted
C3_Witness ==
    \E i, j \in Invocations :
        /\ i < j
        /\ pc[i] = "done" /\ result[i] = "error"
        /\ pc[j] \in RunPcs

\* C4: run_partial leaves the registry as it found it: a call that is
\* rejected or names no registered source changes nothing, a call that
\* starts a run saves the set it found, keeps the saved set through the run
\* and puts it back when the run ends in any way.
C4_RegistryRestored ==
    [][ \A i \in Invocations :
            /\ (Called(i) /\ call'[i].op = "run_partial") =>
                   IF pc'[i] = "done" THEN sources' = sources
                   ELSE original_sources'[i] = sources
            /\ (call[i].op = "run_partial" /\ pc[i] \in RunPcs /\ ~Returns(i)) =>
                   original_sources'[i] = original_sources[i]
            /\ (call[i].op = "run_partial" /\ pc[i] \in RunPcs /\ Returns(i)) =>
                   sources' = original_sources[i] ]_vars

\* a partial run over a proper subset ended by an exception or an error
\* result, and the registry holds the full set again
C4_Witness ==
    \E i \in Invocations :
        /\ call[i].op = "run_partial"
        /\ pc[i] = "done" /\ result[i] \in {"error", "raised"}
        /\ sources = RegistrySources

\* C5 (as claimed): no run that passed the guard ends with an error result;
\* whatever stage fails, run_full returns a completed summary.
C5_NoStageAbortsRun ==
    \A i \in Invocations : result[i] # "error"

AllFetchesFailed(i) ==
    /\ pc[i] \in RunPcs \ {"fetching"}
    /\ ~call[i].use_mock_data
    /\ DOMAIN fetched[i] # {}
    /\ \A k \in DOMAIN fetched[i] : HasError(fetched[i][k])

C8_PartialOnlyRequested ==
    \A i \in Invocations :
        (call[i].op = "run_partial" /\ pc[i] \in RunPcs) =>
            /\ DOMAIN raw_data[i] \subseteq call[i].source_keys
            /\ DOMAIN processed_data[i] \subseteq call[i].source_keys
            /\ DOMAIN injection_results[i] \ {"fusion"} \subseteq call[i].source_keys

\* C9 (as claimed): when a run that passed the guard returns, completed or
\* with an error result, last_run is the summary of that run.
C9_LastRunIsThatRun ==
    [][ \A i \in Invocations :
            (pc[i] \in RunPcs /\ Returns(i) /\ result'[i] \in {"completed", "error"}) =>
                (last_run'.pipeline_id = i /\ last_run'.status = result'[i]) ]_vars

\* C10 (as claimed): records_merged of a fusion result is at most the sum of
\* the record counts of the sources used.
C10_MergedAtMostInputs ==
    (fusion_call.state = "returned" /\ ~fusion_call.raised) =>
        fusion_call.result.records_merged <= fusion_call.result.records_before_fusion

\* the recipe, the validated sources and the prepared frames of the direct call
CallConfig == FusionConfigs[fusion_call.fusion_type]

CallAvailable == ValidateSources(fusion_call.processed_data, CallConfig)

CallPrepared == PrepareDataForFusion(CallAvailable)

\* the direct call uses a geographic recipe on a primary source whose rows
\* all have a parseable key, and no secondary source used has a row with one
\* of the primary keys
NoSecondaryMatch ==
    /\ CallConfig.strategy = "geographic"
    /\ CallConfig.primary_source \in DOMAIN CallAvailable
    /\ CallConfig.primary_source \in DOMAIN CallPrepared
    /\ LET codes == UniqueCodes(CallPrepared[CallConfig.primary_source].rows, {})
       IN \A i \in DOMAIN CallConfig.secondary_sources :
             LET src == CallConfig.secondary_sources[i]
             IN src \in DOMAIN CallPrepared =>
                   \A c \in DOMAIN codes :
                       RowsWithCode(CallPrepared[src].rows, codes[c]) = <<>>

\* C11 (as claimed): a geographic fusion of a primary source of N records
\* with secondary sources that have no row for any primary key returns N
\* fused records, none of them carrying a secondary field.
C11_LeftOuterJoin ==
    (fusion_call.state = "returned" /\ NoSecondaryMatch) =>
        /\ ~fusion_call.raised
        /\ fusion_call.result.records_merged =
               Len(fusion_call.processed_data[CallConfig.primary_source].data)
        /\ \A r \in DOMAIN fusion_call.result.fused_data :
               fusion_call.result.fused_data[r].secondary = {}

\* C12 (as claimed): a direct call whose primary source is absent or has no
\* records does not raise and returns the empty fusion result, whether or
\* not a secondary source is present.
C12_MissingPrimaryGivesEmpty ==
    (fusion_call.state = "returned"
        /\ CallConfig.primary_source \notin DOMAIN CallAvailable) =>
        /\ ~fusion_call.raised
        /\ fusion_call.result = EmptyFusionResult

\* C13: the fusion stage of a run calls the fusion engine if and only if at
\* least 2 processed sources are valid (no error entry, a non-empty record
\* list); a run that completes with fewer than 2 valid sources has not
\* called the engine and reports the fusion as skipped.
C13_FusionIffTwoValid ==
    [][ \A i \in Invocations :
            /\ (pc[i] = "fuse" /\ pc'[i] = "document") =>
                   (fuse_sources_called'[i]
                        <=> Cardinality(ValidSources(processed_data[i])) >= 2)
            /\ (pc[i] = "report" /\ result'[i] = "completed"
                   /\ Cardinality(ValidSources(processed_data[i])) < 2) =>
                   (~fuse_sources_called[i] /\ last_run'.fusion = "skipped") ]_vars

\* after a run that reported a completed fusion, a run with exactly one
\* valid source has passed the fusion stage without calling the engine
C13_Witness ==
    \E i \in Invocations :
        /\ pc[i] = "document"
        /\ Cardinality(ValidSources(processed_data[i])) = 1
        /\ ~fuse_sources_called[i]
        /\ last_run.status = "completed" /\ last_run.fusion = "completed"

\* a direct call of _calculate_quality_metrics has returned
MetricsReturned ==
    /\ processor_call.state = "returned"
    /\ processor_call.method = "calculate_quality_metrics"

\* the threshold band of a reported overall score (in tenths)
BandOf(score) ==
    IF score >= 950 THEN "excellent"
    ELSE IF score >= 800 THEN "good"
    ELSE IF score >= 600 THEN "acceptable"
    ELSE "poor"

\* C14 (as claimed): the quality level reported with a dataset is the
\* threshold band of the overall_score reported with it.
C14_LevelIsBandOfScore ==
    MetricsReturned =>
        processor_call.metrics.quality_level = BandOf(processor_call.metrics.overall_score)

\* C15: completeness, consistency, validity and overall_score of every
\* processed dataset, the empty one included, lie between 0 and 100.
C15_ScoresInRange ==
    MetricsReturned =>
        \A f \in {"completeness", "consistency", "validity", "overall_score"} :
            /\ 0 <= processor_call.metrics[f]
            /\ processor_call.metrics[f] <= 1000

\* a budget dataset whose percentages add up to more than 100 % was scored
\* (the consistency is 100 less the excess, the overall score is not 0)
C15_Witness ==
    /\ MetricsReturned
    /\ processor_call.data_type = "budget"
    /\ SumField(processor_call.data, "pourcentage") > 1000
    /\ processor_call.metrics.overall_score > 0

\* a direct call of _parse_numeric has returned
ParsedText(v) ==
    /\ processor_call.state = "returned"
    /\ processor_call.method = "parse_numeric"
    /\ processor_call.value = v

\* C16 (as claimed): parse_numeric("1 234,56 €") is 1234.56 and
\* parse_numeric("not a number") is 0.0.
C16_ParseNumericEuropean ==
    /\ ParsedText(<<"1", " ", "2", "3", "4", ",", "5", "6", " ", "EUR">>) =>
           processor_call.number.num * 100 = 123456 * processor_call.number.den
    /\ ParsedText(<<"n", "o", "t", " ", "a", " ", "n", "u", "m", "b", "e", "r">>) =>
           processor_call.number.num = 0

\* C17 (as claimed): a run_partial call whose source_keys hold a key that is
\* not registered returns at once: no stage runs, and is_running, last_run,
\* the registry and the sink stay as they were.
C17_UnknownKeyFailsFast ==
    [][ \A i \in Invocations :
            (Called(i) /\ call'[i].op = "run_partial"
                /\ call'[i].source_keys \ sources # {}) =>
                /\ pc'[i] = "done"
                /\ is_running' = is_running /\ last_run' = last_run
                /\ sources' = sources /\ db' = db ]_vars

\* C18: fetch_all_sources returns one entry per registered source key under
\* any completion order of the fetch tasks: an entry once collected is kept
\* as it is, the batch is returned only with an entry for every key of the
\* registry, and a fetch that failed (status, network, parsing) contributes
\* an entry with an error field.
C18_FetchAllCollectsEveryKey ==
    [][ \A i \in Invocations :
            /\ (pc[i] = "fetching" /\ pc'[i] \in {"fetching", "process"}) =>
                  \A k \in DOMAIN fetched[i] :
                      k \in DOMAIN fetched'[i] /\ fetched'[i][k] = fetched[i][k]
            /\ (pc[i] = "fetching" /\ pc'[i] = "process") =>
                  DOMAIN fetched[i] = sources
            /\ \A k \in RegistrySources : \A o \in FetchOutcomes(k) \cap FailedOutcomes :
                  HasError(PayloadOfOutcome(k, o)) ]_vars

\* a batch over the three registered sources was returned in which one
\* fetch failed and another delivered its rows
C18_Witness ==
    \E i \in Invocations :
        /\ pc[i] = "process" /\ ~call[i].use_mock_data
        /\ DOMAIN fetched[i] = RegistrySources
        /\ HasError(fetched[i]["paris_budget"])
        /\ fetched[i]["transport_national"].kind = "dict"

\* C19: the sink never holds two projects or two datasets for one source
\* key (or for the fused dataset), and a run that persists a source leaves
\* its one dataset row with that run's record count: a repeated run updates
\* the row it finds.
C19_PersistenceIdempotent ==
    [][ /\ \A k \in DOMAIN db'.projects : db'.projects[k] <= 1
        /\ \A k \in DOMAIN db'.datasets : Len(db'.datasets[k]) <= 1
        /\ \A i \in Invocations :
              (pc[i] = "inject" /\ pc'[i] = "report") =>
                  \A k \in WrittenDatasets(injection_results'[i]) :
                      /\ db'.projects[k] = 1
                      /\ db'.datasets[k] = <<injection_results'[i][k].records_inserted>> ]_vars

\* a run has persisted a source that an earlier completed run had persisted
\* with another record count
C19_Witness ==
    \E i \in Invocations :
        /\ pc[i] = "report"
        /\ last_run.status = "completed"
        /\ \E k \in WrittenDatasets(injection_results[i]) \cap WrittenDatasets(last_run.injection) :
              injection_results[i][k].records_inserted # last_run.injection[k].records_inserted

\* ---------------------------------------------------------------------- C20
\* the orchestrator, the registry and the sink are as construction left them
PipelineUntouched ==
    /\ is_running = FALSE
    /\ last_run = NoRun
    /\ sources = RegistrySources
    /\ db = EmptySink
    /\ \A i \in Invocations : pc[i] = "idle"

\* C20: documentation generation is deterministic and free of side effects:
\* two generate calls on the same processed datasets and the same fusion
\* result return equal bundles, and no call changes the state of the
\* orchestrator, the registry or the sink.
C20_DocumentationDeterministic ==
    /\ documentation_call.state = "called" => PipelineUntouched
    /\ Len(documentation_call.bundles) = 2 =>
          documentation_call.bundles[1] = documentation_call.bundles[2]

\* ---------------------------------------------------------------------- C21
\* at least 80% of the sampled values count for the category (a value
\* counts for the first category it matches)
EightyPercent(values, kind) ==
    CountOf(values, kind) * 100 >= 80 * Min(100, Len(values))

\* C21: field-type inference classifies a field as numeric (else date, else
\* boolean, in that priority) whenever at least 80% of its sampled non-null
\* values, exactly 80% included, match that category, and as text
\* otherwise; at most the first 100 values are sampled.
C21_InferAtEightyPercent ==
    (infer_call.state = "returned" /\ infer_call.values # <<>>) =>
        infer_call.field_type =
            IF EightyPercent(infer_call.values, "numeric") THEN "numeric"
            ELSE IF EightyPercent(infer_call.values, "date") THEN "date"
            ELSE IF EightyPercent(infer_call.values, "boolean") THEN "boolean"
            ELSE "text"

\* ---------------------------------------------------------------------- C22
\* C22: a user who has no active explicit permission on a project, because
\* none was ever granted or because it was removed, is denied every
\* permission by check_permission, view_project included.
C22_NoPermissionDenied ==
    (permission_service.check.made /\ ~permission_service.check.explicit) =>
        ~permission_service.check.result

\* ---------------------------------------------------------------------- C23
\* C23: after the Clean step, for any raw record list, no retained record
\* holds a key whose value is null or the empty string, every string value
\* is trimmed of surrounding whitespace, and no retained record is empty.
C23_CleanedRecords ==
    (processor_call.state = "returned" /\ processor_call.method = "clean_raw_data") =>
        \A i \in DOMAIN processor_call.cleaned :
            LET row == processor_call.cleaned[i]
            IN /\ DOMAIN row # {}
               /\ \A k \in DOMAIN row :
                     /\ row[k].kind # "none"
                     /\ row[k].kind = "str" =>
                           /\ row[k].text # <<>>
                           /\ Head(row[k].text) # " "
                           /\ row[k].text[Len(row[k].text)] # " "

\* ---------------------------------------------------------------------- C24
\* the direct call runs the geographic fusion over a budget source, and its
\* primary source was prepared
GeographicWithBudget ==
    /\ CallConfig.strategy \in {"geographic", "hybrid"}
    /\ "paris_budget" \in DOMAIN CallAvailable
    /\ CallConfig.primary_source \in DOMAIN CallAvailable
    /\ CallConfig.primary_source \in DOMAIN CallPrepared

\* C24: in geographic fusion a budget record whose sector is not in the
\* sector-to-districts table is silently dropped while the fusion still
\* completes without error, for every mix of mapped and unmapped sectors in
\* the budget source, the case of no mapped sector included.
C24_UnmappedSectorsDropped ==
    (fusion_call.state = "returned" /\ GeographicWithBudget) =>
        /\ ~fusion_call.raised
        /\ \A i \in DOMAIN fusion_call.result.fused_data :
              LET primary == fusion_call.result.fused_data[i].primary
              IN "secteur" \in DOMAIN primary =>
                    primary.secteur \in DOMAIN SectorToDistrict

\* ---------------------------------------------------------------------- C25
\* the geographic key of a participation row can be parsed
KeyParses(row) ==
    "arrondissement" \in DOMAIN row /\ ExtractCode(row.arrondissement) # <<>>

\* the participation rows of the direct call, when the source is used
CallParticipation ==
    IF "paris_participation" \in DOMAIN CallAvailable
    THEN CallAvailable["paris_participation"].data ELSE <<>>

\* the direct call uses a participation source with a row whose key parses
\* and a row whose key does not
MixedKeys ==
    /\ CallConfig.strategy \in {"geographic", "hybrid"}
    /\ \E i \in DOMAIN CallParticipation : KeyParses(CallParticipation[i])
    /\ \E i \in DOMAIN CallParticipation : ~KeyParses(CallParticipation[i])

\* C25: a source row whose geographic key cannot be parsed (missing or not
\* numeric) is excluded from the fused output, while the remaining rows of
\* the same source are still fused and fuse does not raise.
C25_UnparseableKeyExcluded ==
    (fusion_call.state = "returned" /\ fusion_call.fusion_type = "civic_engagement"
        /\ MixedKeys) =>
        /\ ~fusion_call.raised
        /\ fusion_call.result.records_merged =
              Cardinality({i \in DOMAIN CallParticipation : KeyParses(CallParticipation[i])})

\* ---------------------------------------------------------------------- C26
\* the secondary sources of the recipe that gave a field to a fused record
Contributing ==
    {CallConfig.secondary_sources[i] : i \in DOMAIN CallConfig.secondary_sources}
    \cap {sf[1] : sf \in UNION {fusion_call.result.fused_data[i].secondary :
                                  i \in DOMAIN fusion_call.result.fused_data}}

\* C26: the source_diversity of a FusionResult is the fraction, as a
\* percentage between 0 and 100, of the recipe's secondary sources that
\* contributed at least one field to the fused records.
C26_SourceDiversity ==
    (fusion_call.state = "returned" /\ ~fusion_call.raised) =>
        /\ fusion_call.result.source_diversity \in 0..10000
        /\ fusion_call.result.source_diversity =
              Round2(Cardinality(Contributing) * 100, Len(CallConfig.secondary_sources))

\* ---------------------------------------------------------------------- C27
\* C27: whenever the orchestrator is idle (is_running is false) the active
\* source set of the registry is the full original set; the restricted set
\* installed by run_partial can be observed by other callers only while
\* is_running is true.
C27_IdleRegistryIsFull ==
    ~is_running => sources = RegistrySources

\* a partial run has ended and the orchestrator is idle again
C27_Witness ==
    /\ ~is_running
    /\ \E i \in Invocations :
          /\ pc[i] = "done"
          /\ call[i].op = "run_partial"
          /\ result[i] = "completed"

\* ---------------------------------------------------------------------- C28
\* the source keys the registered recipes name as primary or secondary
RecipeSourceKeys ==
    UNION {{FusionConfigs[t].primary_source}
           \cup {FusionConfigs[t].secondary_sources[i] :
                    i \in DOMAIN FusionConfigs[t].secondary_sources}
           : t \in FusionTypes}

\* C28: every source key that a registered fusion recipe names as its primary
\* or secondary source is a key of the source registry, so that a run over
\* live acquisition results can supply the primary source of the
\* civic_engagement recipe the orchestrator always uses.
C28_RecipeKeysRegistered ==
    ~is_running => RecipeSourceKeys \subseteq sources

\* ---------------------------------------------------------------------- C29
\* the rows of the primary source as passed to the direct call
CallPrimaryData == fusion_call.processed_data[CallConfig.primary_source].data

\* row keeps every field of some record of the primary source
KeepsPrimaryFields(row) ==
    \E j \in DOMAIN CallPrimaryData :
        \A f \in DOMAIN CallPrimaryData[j] :
            f \in DOMAIN row /\ row[f] = CallPrimaryData[j][f]

AdmittedSince(ip, k, since) ==
    {j \in 1..k : /\ rate_limit.served[j].ip = ip
                  /\ rate_limit.served[j].status = 200
                  /\ rate_limit.served[j].at > since}

\* C30: the rate limiter never admits more than requests_per_minute requests
\* of one client IP within any 60-second window: a request that arrives when
\* the IP already has requests_per_minute recorded timestamps newer than 60
\* seconds is answered with 429 and is not recorded, and after the cleanup
\* no timestamp older than 60 seconds and no IP with an empty list is left
\* in the table.
C30_RateLimited ==
    rate_limit.state = "installed" =>
        /\ \A k \in DOMAIN rate_limit.served :
              LET r == rate_limit.served[k]
              IN /\ r.status = 200 =>
                       Cardinality(AdmittedSince(r.ip, k, r.at - Window))
                           <= rate_limit.requests_per_minute
                 /\ r.status = 429 <=>
                       Cardinality(AdmittedSince(r.ip, k - 1, r.at - Window))
                           >= rate_limit.requests_per_minute
        /\ \A ip \in ClientIps :
              Len(IF ip \in DOMAIN rate_limit.requests THEN rate_limit.requests[ip]
                  ELSE <<>>)
              = Cardinality(AdmittedSince(ip, Len(rate_limit.served),
                                          rate_limit.now - Window))
        /\ \A ip \in DOMAIN rate_limit.requests :
              /\ rate_limit.requests[ip] # <<>>
              /\ \A t \in DOMAIN rate_limit.requests[ip] :
                    rate_limit.requests[ip][t] > rate_limit.now - Window

\* a request was answered with 429, and the list of an IP that had been
\* admitted was removed from the table by a later cleanup
C30_Witness ==
    /\ \E k \in DOMAIN rate_limit.served : rate_limit.served[k].status = 429
    /\ \E k \in DOMAIN rate_limit.served :
          /\ rate_limit.served[k].status = 200
          /\ rate_limit.served[k].ip \notin DOMAIN rate_limit.requests

====
